---------------------------- MODULE Spec2Model ----------------------------
(***************************************************************************)
(* Model of the AI-response normalization funnel of the repository         *)
(* indexer (analyzeWithAI and its helpers).  Texts are sequences of        *)
(* one-character strings; JavaScript values are tagged records.            *)
(***************************************************************************)
EXTENDS Integers, Sequences, FiniteSets, TLC

(***************************************************************************)
(* Characters.  The backtick cannot be written inside a TLA+ string, so    *)
(* the atom BT stands for it.                                              *)
(***************************************************************************)
BT == "BACKTICK"
QT == "\""
BS == "\\"
NL == "\n"
WS == {" ", NL}
Digits == {"0", "1", "2", "3", "4", "5", "6", "7", "8", "9"}

(***************************************************************************)
(* JavaScript values: t is the type tag, v the payload.                    *)
(*   str: sequence of characters      num: natural number                  *)
(*   bool: BOOLEAN                    null, undef: no payload              *)
(*   arr: sequence of values          obj: sequence of [k, x] members      *)
(***************************************************************************)
JStr(s) == [t |-> "str", v |-> s]
JNum(n) == [t |-> "num", v |-> n]
JBool(b) == [t |-> "bool", v |-> b]
JNull == [t |-> "null", v |-> 0]
JUndef == [t |-> "undef", v |-> 0]
JArr(a) == [t |-> "arr", v |-> a]
JObj(m) == [t |-> "obj", v |-> m]

(***************************************************************************)
(* Elementary string operations.                                           *)
(***************************************************************************)
Max(a, b) == IF a >= b THEN a ELSE b
Min(a, b) == IF a <= b THEN a ELSE b

\* s.substring(i-1, j) with 1-based inclusive positions; empty when i > j
Sub(s, i, j) == IF i > j THEN <<>> ELSE SubSeq(s, i, j)

\* whether the literal w occurs in s at position i
At(s, i, w) ==
    /\ i >= 1
    /\ i + Len(w) - 1 <= Len(s)
    /\ \A k \in 1..Len(w) : s[i + k - 1] = w[k]

\* position after the run of white space starting at i  (\s*)
RECURSIVE SkipWs(_, _)
SkipWs(s, i) == IF i <= Len(s) /\ s[i] \in WS THEN SkipWs(s, i + 1) ELSE i

\* least and greatest element of a non-empty set of positions
FirstIn(P) == CHOOSE x \in P : \A y \in P : x <= y
LastIn(P) == CHOOSE x \in P : \A y \in P : y <= x

\* smallest position >= i holding character c, or 0  (indexOf)
IndexFrom(s, c, i) ==
    LET P == {k \in i..Len(s) : s[k] = c} IN
    IF P = {} THEN 0 ELSE FirstIn(P)

indexOf(s, c) == IndexFrom(s, c, 1)

\* largest position holding character c, or 0  (lastIndexOf)
lastIndexOf(s, c) ==
    LET P == {k \in 1..Len(s) : s[k] = c} IN
    IF P = {} THEN 0 ELSE LastIn(P)

\* number of occurrences of character c  ((s.match(/c/g) || []).length)
Count(s, c) == Cardinality({i \in 1..Len(s) : s[i] = c})

\* smallest position >= i where the literal w occurs, or 0
FindFrom(s, w, i) ==
    LET P == {k \in i..(Len(s) - Len(w) + 1) : At(s, k, w)} IN
    IF P = {} THEN 0 ELSE FirstIn(P)

\* String.prototype.trim
RECURSIVE TrimEnd(_, _)
TrimEnd(s, j) == IF j >= 1 /\ s[j] \in WS THEN TrimEnd(s, j - 1) ELSE j

trim(s) == Sub(s, SkipWs(s, 1), TrimEnd(s, Len(s)))

\* Array.prototype.slice(0, n)
slice(a, n) == Sub(a, 1, Min(n, Len(a)))

(***************************************************************************)
(* JSON.parse.  A result is [ok, v, p]: success, the value, and the        *)
(* position after it.  The texts of the model hold non-negative integers   *)
(* only and the escapes \" \\ \/ \n \t.                                    *)
(***************************************************************************)
PFail == [ok |-> FALSE, v |-> JUndef, p |-> 0]
POk(val, pos) == [ok |-> TRUE, v |-> val, p |-> pos]

Unescape(c) == CASE c = "n" -> NL
                 [] c = "t" -> "\t"
                 [] OTHER -> c

DigitVal(c) == CHOOSE d \in 0..9 :
    <<"0", "1", "2", "3", "4", "5", "6", "7", "8", "9">>[d + 1] = c

\* length of the run of backslashes that ends at position k, from i on
RECURSIVE BackslashRun(_, _, _)
BackslashRun(s, k, i) ==
    IF k >= i /\ s[k] = BS THEN 1 + BackslashRun(s, k - 1, i) ELSE 0

\* position k of a string body that starts at i is escaped: it is the
\* second character of a backslash pair
Escaped(s, k, i) == BackslashRun(s, k - 1, i) % 2 = 1

\* position of the quote that closes the string body starting at i, or 0
ClosingQuote(s, i) ==
    LET P == {k \in i..Len(s) : s[k] = QT /\ ~Escaped(s, k, i)} IN
    IF P = {} THEN 0 ELSE FirstIn(P)

\* the positions i..j that are not escaped, in order
AtomStarts(s, i, j) ==
    LET NotEscaped(k) == ~Escaped(s, k, i) IN
    SelectSeq([k \in 1..(j - i + 1) |-> i + k - 1], NotEscaped)

\* the value of the string body whose atoms start at the positions a and
\* whose closing quote is at e: each escape must be one JSON knows, and no
\* control character may stand unescaped
StringValue(s, a, e) ==
    IF \E n \in 1..Len(a) :
           IF s[a[n]] = BS THEN s[a[n] + 1] \notin {QT, BS, "/", "n", "t"}
           ELSE s[a[n]] \in {NL, "\t"}
    THEN PFail
    ELSE POk([n \in 1..Len(a) |->
                 IF s[a[n]] = BS THEN Unescape(s[a[n] + 1]) ELSE s[a[n]]],
             e + 1)

StringUpTo(s, i, e) == IF e = 0 THEN PFail ELSE StringValue(s, AtomStarts(s, i, e - 1), e)

\* the characters of a string literal whose opening quote precedes position i
ParseString(s, i) == StringUpTo(s, i, ClosingQuote(s, i))

RECURSIVE ParseDigits(_, _, _)
ParseDigits(s, i, acc) ==
    IF i <= Len(s) /\ s[i] \in Digits
    THEN ParseDigits(s, i + 1, 10 * acc + DigitVal(s[i]))
    ELSE POk(JNum(acc), i)

RECURSIVE ParseValue(_, _)
RECURSIVE ParseMembers(_, _, _)
RECURSIVE ParseElements(_, _, _)

\* a parsed string literal as a value
StringLiteral(r) == IF r.ok THEN POk(JStr(r.v), r.p) ELSE PFail

\* after a member: e is the position of the next token
MemberEnd(s, e, acc) ==
    IF e > Len(s) THEN PFail
    ELSE IF s[e] = "}" THEN POk(JObj(acc), e + 1)
    ELSE IF s[e] = "," THEN ParseMembers(s, SkipWs(s, e + 1), acc)
    ELSE PFail

\* after the value val of the member named key
MemberValue(s, key, val, acc) ==
    IF ~val.ok THEN PFail
    ELSE MemberEnd(s, SkipWs(s, val.p), Append(acc, [k |-> key, x |-> val.v]))

\* after the member name key: c is the position of the next token
MemberColon(s, key, c, acc) ==
    IF c > Len(s) \/ s[c] # ":" THEN PFail
    ELSE MemberValue(s, key, ParseValue(s, c + 1), acc)

MemberKey(s, key, acc) ==
    IF ~key.ok THEN PFail ELSE MemberColon(s, key.v, SkipWs(s, key.p), acc)

\* members of an object from position i (white space skipped), up to its }
ParseMembers(s, i, acc) ==
    IF i > Len(s) \/ s[i] # QT THEN PFail
    ELSE MemberKey(s, ParseString(s, i + 1), acc)

\* after an element: e is the position of the next token
ElementEnd(s, e, acc) ==
    IF e > Len(s) THEN PFail
    ELSE IF s[e] = "]" THEN POk(JArr(acc), e + 1)
    ELSE IF s[e] = "," THEN ParseElements(s, e + 1, acc)
    ELSE PFail

ElementValue(s, val, acc) ==
    IF ~val.ok THEN PFail
    ELSE ElementEnd(s, SkipWs(s, val.p), Append(acc, val.v))

\* elements of an array from position i, up to its ]
ParseElements(s, i, acc) == ElementValue(s, ParseValue(s, i), acc)

\* the value that starts at position i (white space skipped)
ValueAt(s, i) ==
    IF i > Len(s) THEN PFail
    ELSE IF s[i] = "{" THEN
        IF At(s, SkipWs(s, i + 1), <<"}">>) THEN POk(JObj(<<>>), SkipWs(s, i + 1) + 1)
        ELSE ParseMembers(s, SkipWs(s, i + 1), <<>>)
    ELSE IF s[i] = "[" THEN
        IF At(s, SkipWs(s, i + 1), <<"]">>) THEN POk(JArr(<<>>), SkipWs(s, i + 1) + 1)
        ELSE ParseElements(s, SkipWs(s, i + 1), <<>>)
    ELSE IF s[i] = QT THEN StringLiteral(ParseString(s, i + 1))
    ELSE IF s[i] = "0" THEN POk(JNum(0), i + 1)
    ELSE IF s[i] \in Digits THEN ParseDigits(s, i, 0)
    ELSE IF At(s, i, <<"t", "r", "u", "e">>) THEN POk(JBool(TRUE), i + 4)
    ELSE IF At(s, i, <<"f", "a", "l", "s", "e">>) THEN POk(JBool(FALSE), i + 5)
    ELSE IF At(s, i, <<"n", "u", "l", "l">>) THEN POk(JNull, i + 4)
    ELSE PFail

ParseValue(s, i) == ValueAt(s, SkipWs(s, i))

\* the whole text must be one value
WholeText(s, r) == IF r.ok /\ SkipWs(s, r.p) > Len(s) THEN r ELSE PFail

\* JSON.parse(s): [ok |-> FALSE] stands for the SyntaxError
JSONparse(s) == WholeText(s, ParseValue(s, 1))


(***************************************************************************)
(* JavaScript semantics used by the normalizer.                            *)
(***************************************************************************)
\* ToBoolean: the left operand of ||
Truthy(x) == CASE x.t = "str" -> x.v # <<>>
               [] x.t = "num" -> x.v # 0
               [] x.t = "bool" -> x.v
               [] x.t \in {"null", "undef"} -> FALSE
               [] OTHER -> TRUE

\* a || b
Or(a, b) == IF Truthy(a) THEN a ELSE b

\* the last member named key of an object's member list, or undefined
RECURSIVE Lookup(_, _, _)
Lookup(m, key, i) ==
    IF i < 1 THEN JUndef
    ELSE IF m[i].k = key THEN m[i].x
    ELSE Lookup(m, key, i - 1)

HasKey(m, key) == \E i \in 1..Len(m) : m[i].k = key

\* x.key for x neither null nor undefined (those throw a TypeError)
Get(x, key) == IF x.t = "obj" THEN Lookup(x.v, key, Len(x.v)) ELSE JUndef

\* Object.keys of an object value
ObjectKeys(x) == [i \in 1..Len(x.v) |-> x.v[i].k]

RECURSIVE NatToStr(_)
NatToStr(n) ==
    LET d == <<"0", "1", "2", "3", "4", "5", "6", "7", "8", "9">>[(n % 10) + 1] IN
    IF n < 10 THEN <<d>> ELSE Append(NatToStr(n \div 10), d)

KtoString == <<"t", "o", "S", "t", "r", "i", "n", "g">>

\* whether String(x) throws: an object parsed from JSON that has its own
\* member toString has no callable conversion method (OrdinaryToPrimitive);
\* an array joins the conversions of its elements
RECURSIVE StringThrows(_)
StringThrows(x) ==
    CASE x.t = "obj" -> HasKey(x.v, KtoString)
      [] x.t = "arr" -> \E i \in 1..Len(x.v) : StringThrows(x.v[i])
      [] OTHER -> FALSE

\* String(x) and the conversion of `${x}`, when it does not throw
RECURSIVE ToStr(_)
RECURSIVE JoinFrom(_, _)
ToStr(x) ==
    CASE x.t = "str" -> x.v
      [] x.t = "num" -> NatToStr(x.v)
      [] x.t = "bool" -> IF x.v THEN <<"t", "r", "u", "e">>
                                ELSE <<"f", "a", "l", "s", "e">>
      [] x.t = "null" -> <<"n", "u", "l", "l">>
      [] x.t = "undef" -> <<"u", "n", "d", "e", "f", "i", "n", "e", "d">>
      [] x.t = "arr" -> JoinFrom(x.v, 1)
      [] OTHER -> <<"[", "o", "b", "j", "e", "c", "t", " ",
                    "O", "b", "j", "e", "c", "t", "]">>

\* Array.prototype.join(","): null and undefined elements join as ""
JoinFrom(a, i) ==
    IF i > Len(a) THEN <<>>
    ELSE (IF a[i].t \in {"null", "undef"} THEN <<>> ELSE ToStr(a[i]))
         \o (IF i < Len(a) THEN <<",">> ELSE <<>>)
         \o JoinFrom(a, i + 1)

String(x) == JStr(ToStr(x))

\* a.map(String)
MapString(a) == [i \in 1..Len(a) |-> String(a[i])]

(***************************************************************************)
(* Literals of the source.                                                 *)
(***************************************************************************)
KprojectName == <<"p", "r", "o", "j", "e", "c", "t", "N", "a", "m", "e">>
Kdescription == <<"d", "e", "s", "c", "r", "i", "p", "t", "i", "o", "n">>
KtechStack == <<"t", "e", "c", "h", "S", "t", "a", "c", "k">>
Kfeatures == <<"f", "e", "a", "t", "u", "r", "e", "s">>
Kstructure == <<"s", "t", "r", "u", "c", "t", "u", "r", "e">>
Kreadme == <<"r", "e", "a", "d", "m", "e">>
LitUnknown == <<"U", "n", "k", "n", "o", "w", "n">>
LitSoftwareProject == <<"A", " ", "s", "o", "f", "t", "w", "a", "r", "e", " ",
                        "p", "r", "o", "j", "e", "c", "t", ".">>
LitUnknownProject == <<"U", "n", "k", "n", "o", "w", "n", " ",
                       "P", "r", "o", "j", "e", "c", "t">>
LitAnalysisCompleted == <<"R", "e", "p", "o", "s", "i", "t", "o", "r", "y", " ",
                          "a", "n", "a", "l", "y", "s", "i", "s", " ",
                          "c", "o", "m", "p", "l", "e", "t", "e", "d", ".">>
LitProject == <<"P", "r", "o", "j", "e", "c", "t">>
LitJson == <<"j", "s", "o", "n">>
Fence == <<BT, BT, BT>>

\* slice(0, 5) of validateAndNormalize and extractArray
ArrayLimit == 5
\* slice(0, 4) of the language fallback of extractPartialData
LanguageLimit == 4
\* the lengths the prompt declares for description and readme
MaxDescriptionChars == 100
MaxReadmeChars == 800

(***************************************************************************)
(* validateAndNormalize(parsed, repoInfo).  repoInfo is a record           *)
(* [name, path, description, languages] of JavaScript values.              *)
(***************************************************************************)
VNprojectName(parsed, repoInfo) ==
    Or(Or(Or(Get(parsed, KprojectName), repoInfo.name), repoInfo.path),
       JStr(LitUnknown))

VNdescription(parsed, repoInfo) ==
    Or(Or(Get(parsed, Kdescription), repoInfo.description),
       JStr(LitSoftwareProject))

\* Array.isArray(x) ? x.slice(0, 5).map(String) : []
VNarray(x) ==
    IF x.t = "arr" THEN JArr(MapString(slice(x.v, ArrayLimit))) ELSE JArr(<<>>)

\* the operands of the template `# ${...}\n\n${...}` of the readme default
VNreadmeName(parsed, repoInfo) == Or(Get(parsed, KprojectName), repoInfo.name)
VNreadmeBody(parsed) == Or(Get(parsed, Kdescription), JStr(<<>>))

VNreadme(parsed, repoInfo) ==
    IF Truthy(Get(parsed, Kreadme)) THEN String(Get(parsed, Kreadme))
    ELSE JStr(<<"#", " ">> \o ToStr(VNreadmeName(parsed, repoInfo))
              \o <<NL, NL>> \o ToStr(VNreadmeBody(parsed)))

\* whether the call throws a TypeError: a property read of null, or a
\* String conversion that throws
validateThrows(parsed, repoInfo) ==
    \/ parsed.t \in {"null", "undef"}
    \/ StringThrows(VNprojectName(parsed, repoInfo))
    \/ StringThrows(VNdescription(parsed, repoInfo))
    \/ \E key \in {KtechStack, Kfeatures, Kstructure} :
          /\ Get(parsed, key).t = "arr"
          /\ StringThrows(JArr(slice(Get(parsed, key).v, ArrayLimit)))
    \/ IF Truthy(Get(parsed, Kreadme)) THEN StringThrows(Get(parsed, Kreadme))
       ELSE \/ StringThrows(VNreadmeName(parsed, repoInfo))
            \/ StringThrows(VNreadmeBody(parsed))

\* the object the call returns when it does not throw
validateAndNormalize(parsed, repoInfo) ==
    [projectName |-> String(VNprojectName(parsed, repoInfo)),
     description |-> String(VNdescription(parsed, repoInfo)),
     techStack |-> VNarray(Get(parsed, KtechStack)),
     features |-> VNarray(Get(parsed, Kfeatures)),
     structure |-> VNarray(Get(parsed, Kstructure)),
     readme |-> VNreadme(parsed, repoInfo)]

(***************************************************************************)
(* repairTruncatedJson(jsonStr).                                           *)
(***************************************************************************)
\* end of the value alternative (?:\[[^\]]*\]|"[^"]*"|true|false|null|\d+)
\* starting at position i, or 0 when none matches
RECURSIVE SkipDigits(_, _)
SkipDigits(s, i) == IF i <= Len(s) /\ s[i] \in Digits THEN SkipDigits(s, i + 1) ELSE i

CompleteValueEnd(s, i) ==
    IF i > Len(s) THEN 0
    ELSE IF s[i] = "[" THEN IndexFrom(s, "]", i + 1)
    ELSE IF s[i] = QT THEN IndexFrom(s, QT, i + 1)
    ELSE IF At(s, i, <<"t", "r", "u", "e">>) THEN i + 3
    ELSE IF At(s, i, <<"f", "a", "l", "s", "e">>) THEN i + 4
    ELSE IF At(s, i, <<"n", "u", "l", "l">>) THEN i + 3
    ELSE IF s[i] \in Digits THEN SkipDigits(s, i) - 1
    ELSE 0

\* whether  [^"]*"?\s*:\s*[^,}\]]*$  matches from position i to the end:
\* a colon after the last , } ] of the text, preceded by characters other
\* than the quote, then at most one quote, then white space
DanglingTail(s, i) ==
    LET closers == {k \in i..Len(s) : s[k] \in {",", "}", "]"}}
        from == IF closers = {} THEN i ELSE LastIn(closers) + 1
        q == IndexFrom(s, QT, i)
    IN
    \E c \in from..Len(s) :
        /\ s[c] = ":"
        /\ (q = 0 \/ c < q \/ c = SkipWs(s, q + 1))

\* with .* ending before position i: the end of group 1 when
\*   "[^"]+"\s*:\s*(value)\s*,?  and then  \s*"[^"]*"?\s*:\s*[^,}\]]*$
\* match from i, or 0
LastCompleteAt(s, i) ==
    IF ~(i <= Len(s) /\ s[i] = QT) THEN 0
    ELSE
        LET k == IndexFrom(s, QT, i + 1) IN
        IF k = 0 \/ k = i + 1 THEN 0
        ELSE
            LET c == SkipWs(s, k + 1) IN
            IF ~(c <= Len(s) /\ s[c] = ":") THEN 0
            ELSE
                LET e == CompleteValueEnd(s, SkipWs(s, c + 1)) IN
                IF e = 0 THEN 0
                ELSE
                    LET a == SkipWs(s, e + 1)
                        g == IF a <= Len(s) /\ s[a] = "," THEN a ELSE a - 1
                        d == SkipWs(s, g + 1)
                    IN
                    IF d <= Len(s) /\ s[d] = QT /\ DanglingTail(s, d + 1)
                    THEN g ELSE 0

\* the greedy .* of the pattern: the largest start that matches decides
LastCompleteEnd(s) ==
    LET P == {i \in 1..Len(s) : s[i] = QT /\ LastCompleteAt(s, i) # 0} IN
    IF P = {} THEN 0 ELSE LastCompleteAt(s, LastIn(P))

\* group 1 of lastCompleteMatch, or the text itself when there is no match
CutToLastComplete(s) ==
    LET g == LastCompleteEnd(s) IN
    IF g = 0 THEN s ELSE Sub(s, 1, g)

\* replace(/,\s*$/, '')
StripTrailingComma(s) ==
    LET j == TrimEnd(s, Len(s)) IN
    IF j >= 1 /\ s[j] = "," THEN Sub(s, 1, j - 1) ELSE s

Repeat(c, n) == [i \in 1..n |-> c]

\* no bracket is appended
CloseArraysNever(s) == s

CloseString(s) == IF Count(s, QT) % 2 # 0 THEN Append(s, QT) ELSE s
CloseArrays(s) == s \o Repeat("]", Max(0, Count(s, "[") - Count(s, "]")))
CloseObjects(s) == s \o Repeat("}", Max(0, Count(s, "{") - Count(s, "}")))

repairTruncatedJson(jsonStr) ==
    CloseObjects(CloseArrays(CloseString(
        StripTrailingComma(CutToLastComplete(jsonStr)))))

(***************************************************************************)
(* extractPartialData(content, repoInfo).  A match is [ok, v].             *)
(***************************************************************************)
NoMatch == [ok |-> FALSE, v |-> <<>>]
Matched(x) == [ok |-> TRUE, v |-> x]

\* position of the character after  "key"\s*:\s*  and the opening character
\* open, for the occurrence of "key" at position i; 0 when it does not match
AfterKey(s, key, open, i) ==
    LET lit == <<QT>> \o key \o <<QT>> IN
    IF ~At(s, i, lit) THEN 0
    ELSE
        LET c == SkipWs(s, i + Len(lit)) IN
        IF ~(c <= Len(s) /\ s[c] = ":") THEN 0
        ELSE
            LET o == SkipWs(s, c + 1) IN
            IF o <= Len(s) /\ s[o] = open THEN o + 1 ELSE 0

\* content.match(/"key"\s*:\s*"([^"]+)"/): group 1 of the leftmost match
ScalarEnd(s, key, i) ==
    LET b == AfterKey(s, key, QT, i)
        e == IF b = 0 THEN 0 ELSE IndexFrom(s, QT, b)
    IN IF b # 0 /\ e > b THEN e ELSE 0

MatchScalar(s, key) ==
    LET P == {i \in 1..Len(s) : ScalarEnd(s, key, i) # 0} IN
    IF P = {} THEN NoMatch
    ELSE Matched(Sub(s, AfterKey(s, key, QT, FirstIn(P)),
                     ScalarEnd(s, key, FirstIn(P)) - 1))

\* content.match(new RegExp(`"${key}"\\s*:\\s*\\[([^\\]]*)`))
MatchArraySpan(s, key) ==
    LET P == {i \in 1..Len(s) : AfterKey(s, key, "[", i) # 0} IN
    IF P = {} THEN NoMatch
    ELSE
        LET b == AfterKey(s, key, "[", FirstIn(P))
            e == IndexFrom(s, "]", b)
        IN Matched(Sub(s, b, IF e = 0 THEN Len(s) ELSE e - 1))

\* span.match(/"([^"]+)"/g) with the quotes of each match removed
RECURSIVE QuotedItems(_, _)
QuotedItems(s, i) ==
    LET q == IndexFrom(s, QT, i)
        e == IF q = 0 THEN 0 ELSE IndexFrom(s, QT, q + 1)
    IN
    IF q = 0 \/ e = 0 THEN <<>>
    ELSE IF e = q + 1 THEN QuotedItems(s, q + 1)
    ELSE <<JStr(Sub(s, q + 1, e - 1))>> \o QuotedItems(s, e + 1)

extractArray(content, key) ==
    LET arrayMatch == MatchArraySpan(content, key) IN
    IF arrayMatch.ok
    THEN JArr(slice(QuotedItems(arrayMatch.v, 1), ArrayLimit))
    ELSE JArr(<<>>)

\* end of ((?:[^"\\]|\\.)*)" from position i: the position of the first
\* quote that is not escaped, or 0 when there is none or when a backslash
\* before it is followed by a line break (which . does not match)
EscapedStringEnd(s, i) ==
    LET e == ClosingQuote(s, i) IN
    IF e = 0 THEN 0
    ELSE IF \E k \in i..(e - 1) :
                s[k] = BS /\ ~Escaped(s, k, i) /\ s[k + 1] = NL
    THEN 0
    ELSE e

\* content.match(/"readme"\s*:\s*"((?:[^"\\]|\\.)*)"/): group 1 of the
\* leftmost match
ReadmeEnd(s, i) ==
    LET b == AfterKey(s, Kreadme, QT, i) IN
    IF b = 0 THEN 0 ELSE EscapedStringEnd(s, b)

MatchReadme(s) ==
    LET P == {i \in 1..Len(s) : ReadmeEnd(s, i) # 0} IN
    IF P = {} THEN NoMatch
    ELSE Matched(Sub(s, AfterKey(s, Kreadme, QT, FirstIn(P)),
                     ReadmeEnd(s, FirstIn(P)) - 1))

\* s.replace(/\\c/g, r) for a character c other than the backslash: every
\* backslash followed by c becomes r (two matches cannot overlap)
ReplaceEscape(s, c, r) ==
    LET PairAt(k) == k >= 1 /\ k < Len(s) /\ s[k] = BS /\ s[k + 1] = c
        Kept(k) == ~PairAt(k - 1)
        keep == SelectSeq([k \in 1..Len(s) |-> k], Kept)
    IN [n \in 1..Len(keep) |-> IF PairAt(keep[n]) THEN r ELSE s[keep[n]]]

UnescapeReadme(s) == ReplaceEscape(ReplaceEscape(s, "n", NL), QT, QT)

EPprojectName(content, repoInfo) ==
    LET nameMatch == MatchScalar(content, KprojectName) IN
    IF nameMatch.ok THEN JStr(nameMatch.v)
    ELSE Or(Or(repoInfo.name, repoInfo.path), JStr(LitUnknownProject))

EPdescription(content, repoInfo) ==
    LET descMatch == MatchScalar(content, Kdescription) IN
    IF descMatch.ok THEN JStr(descMatch.v)
    ELSE Or(repoInfo.description, JStr(LitAnalysisCompleted))

EPreadme(content, repoInfo) ==
    LET readmeMatch == MatchReadme(content) IN
    IF readmeMatch.ok THEN JStr(UnescapeReadme(readmeMatch.v))
    ELSE JStr(<<"#", " ">>
              \o ToStr(Or(Or(repoInfo.name, repoInfo.path), JStr(LitProject)))
              \o <<NL, NL>>
              \o ToStr(Or(repoInfo.description, JStr(LitSoftwareProject))))

\* techStack: the extracted array, or the first language names when it is empty
EPtechStack(content, repoInfo) ==
    LET found == extractArray(content, KtechStack) IN
    IF Len(found.v) = 0 /\ Truthy(repoInfo.languages)
    THEN JArr([i \in 1..Min(LanguageLimit, Len(repoInfo.languages.v)) |->
                  JStr(ObjectKeys(repoInfo.languages)[i])])
    ELSE found

extractPartialData(content, repoInfo) ==
    [projectName |-> EPprojectName(content, repoInfo),
     description |-> EPdescription(content, repoInfo),
     techStack |-> EPtechStack(content, repoInfo),
     features |-> extractArray(content, Kfeatures),
     structure |-> extractArray(content, Kstructure),
     readme |-> EPreadme(content, repoInfo)]

(***************************************************************************)
(* Boundary extraction of analyzeWithAI.                                   *)
(***************************************************************************)
\* jsonStr.match(/```(?:json)?\s*([\s\S]*?)```/): group 1 of the leftmost
\* match.  The opening fence is the first one; when no fence closes it, no
\* later opening fence is closed either.
FenceMatch(s) ==
    LET o == FindFrom(s, Fence, 1) IN
    IF o = 0 THEN NoMatch
    ELSE
        LET a == IF At(s, o + 3, LitJson) THEN o + 7 ELSE o + 3
            b == SkipWs(s, a)
            c == FindFrom(s, Fence, b)
        IN
        IF c # 0 THEN Matched(Sub(s, b, c - 1)) ELSE NoMatch

\* let jsonStr = content.trim(); if (jsonMatch) jsonStr = jsonMatch[1].trim()
StripFence(content) ==
    LET jsonStr == trim(content)
        jsonMatch == FenceMatch(jsonStr)
    IN
    IF jsonMatch.ok THEN trim(jsonMatch.v) ELSE jsonStr

\* the slice from the first { to the last }
SliceBraces(jsonStr) ==
    LET jsonStart == indexOf(jsonStr, "{")
        jsonEnd == lastIndexOf(jsonStr, "}")
    IN
    IF jsonStart # 0 /\ jsonEnd # 0 /\ jsonEnd > jsonStart
    THEN Sub(jsonStr, jsonStart, jsonEnd)
    ELSE IF jsonStart # 0 THEN Sub(jsonStr, jsonStart, Len(jsonStr))
    ELSE jsonStr

BoundaryExtract(content) == SliceBraces(StripFence(content))

\* the try block closed before the return: an exception of
\* validateAndNormalize escapes the funnel
AttemptOutcomeUnguarded(text, repoInfo) ==
    LET r == JSONparse(text) IN
    IF ~r.ok THEN "caught"
    ELSE IF validateThrows(r.v, repoInfo) THEN "thrown"
    ELSE "returned"

\* the outcome of  try { parsed = JSON.parse(text); return
\* validateAndNormalize(parsed, repoInfo) } catch { ... } :
\* "returned", or "caught" when either call throws inside the try block
AttemptOutcome(text, repoInfo) ==
    LET r == JSONparse(text) IN
    IF ~r.ok THEN "caught"
    ELSE IF validateThrows(r.v, repoInfo) THEN "caught"
    ELSE "returned"

(***************************************************************************)
(* Completions and contexts the normalizer is run on.                      *)
(***************************************************************************)
\* largest number of elements of a generated array field
MaxItems == 6
\* characters by which the over-long description exceeds the declared length
OverLong == 1

WFoo == <<"F", "o", "o">>
WBar == <<"B", "a", "r">>
WATool == <<"A", " ", "t", "o", "o", "l">>
WTS == <<"T", "S">>
WReact == <<"R", "e", "a", "c", "t">>
WHashFoo == <<"#", " ", "F", "o", "o">>
WHello == <<"h", "e", "l", "l", "o">>
WGroupFoo == <<"g", "/", "F", "o", "o">>
Letters == <<"a", "b", "c", "d", "e", "f", "g", "h", "i", "j">>

\* JSON text builders
Q(s) == <<QT>> \o s \o <<QT>>
Prop(key, val) == Q(key) \o <<":">> \o val
RECURSIVE Join(_, _)
Join(parts, sep) ==
    IF Len(parts) = 0 THEN <<>>
    ELSE IF Len(parts) = 1 THEN parts[1]
    ELSE parts[1] \o sep \o Join(Tail(parts), sep)
Obj(props) == <<"{">> \o Join(props, <<",">>) \o <<"}">>
Arr(items) == <<"[">> \o Join(items, <<",">>) \o <<"]">>
Items(n) == [i \in 1..n |-> Q(<<Letters[i]>>)]

\* a complete answer: six fields, arrays of n elements
SixFields(desc, n, readme) ==
    Obj(<<Prop(KprojectName, Q(WFoo)), Prop(Kdescription, Q(desc)),
          Prop(KtechStack, Arr(Items(n))), Prop(Kfeatures, Arr(Items(n))),
          Prop(Kstructure, Arr(Items(n))), Prop(Kreadme, Q(readme))>>)

ScenarioA ==
    Obj(<<Prop(KprojectName, Q(WFoo)), Prop(Kdescription, Q(WATool)),
          Prop(KtechStack, Arr(<<Q(WTS)>>)), Prop(Kfeatures, Arr(<<>>)),
          Prop(Kstructure, Arr(<<>>)), Prop(Kreadme, Q(WHashFoo))>>)

TwoFields == Obj(<<Prop(KprojectName, Q(WFoo)), Prop(Kdescription, Q(WBar))>>)

ScenarioC ==
    <<"{">> \o Prop(KprojectName, Q(WFoo)) \o <<",">> \o Q(Kdescription)
    \o <<":", QT, "i", "n", "c", "o", "m", "p", "l", "e", "t", "e", " ",
         "s", "t", "r", "i", "n", "g", " ", "w", "i", "t", "h", " ",
         "n", "o", " ", "c", "l", "o", "s">>

ScenarioD ==
    <<"H", "e", "r", "e", " ", "i", "s", " ", "y", "o", "u", "r", " ",
      "a", "n", "a", "l", "y", "s", "i", "s", ":", " ">> \o KprojectName
    \o <<" ", "i", "s", " ">> \o Q(WFoo) \o <<" ", "a", "n", "d", " ">>
    \o KtechStack \o <<" ", "i", "n", "c", "l", "u", "d", "e", "s", " ">>
    \o Q(WTS) \o <<",", " ">> \o Q(WReact)

\* one array field of n elements beside the project name
ArrayDoc(key, n) == Obj(<<Prop(KprojectName, Q(WFoo)), Prop(key, Arr(Items(n)))>>)

\* values of other types than the schema declares
CoercionDocs ==
    {Obj(<<Prop(KprojectName, <<"[", "]">>), Prop(Kdescription, <<"0">>),
           Prop(Kreadme, <<"[", "]">>)>>),
     Obj(<<Prop(KprojectName, <<"4", "2">>),
           Prop(Kdescription, <<"t", "r", "u", "e">>),
           Prop(KtechStack, Arr(<<<<"1">>, <<"n", "u", "l", "l">>, Q(<<"x">>),
                                  Arr(<<<<"2">>, <<"3">>>>),
                                  Obj(<<Prop(<<"a">>, <<"1">>)>>)>>)),
           Prop(Kreadme, Obj(<<Prop(<<"a">>, <<"1">>)>>))>>),
     Obj(<<Prop(KtechStack, Q(WTS)), Prop(Kfeatures, <<"n", "u", "l", "l">>)>>),
     Obj(<<Prop(KprojectName, Obj(<<Prop(KtoString, <<"1">>)>>))>>),
     Obj(<<Prop(Kfeatures, Arr(<<Obj(<<Prop(KtoString, <<"1">>)>>)>>))>>),
     Obj(<<Prop(Kdescription, Q(<<>>)), Prop(Kdescription, Q(WBar)),
           Prop(Kdescription, Q(<<>>))>>)}

\* a readme that holds a fenced code block
FenceInReadme ==
    SixFields(WATool, 1, <<"R", "u", "n", " ">> \o Fence
                         \o <<"n", "p", "m", " ", "i">> \o Fence)

\* a description longer than the prompt allows
LongDescription ==
    SixFields([i \in 1..(MaxDescriptionChars + OverLong) |-> "x"], 1, WHashFoo)

\* elements and values holding ] \" \\ and \n
SpecialChars ==
    {Obj(<<Prop(KprojectName, Q(WFoo)),
           Prop(Kstructure, Arr(<<Q(<<"a", "]", "b">>)>> \o Items(MaxItems - 1)))>>),
     Obj(<<Prop(Kreadme, Q(<<"s", "a", "y", " ", BS, QT, "h", "i", BS, QT,
                             BS, "n", "x", BS, BS>>)),
           Prop(KprojectName, Q(WFoo))>>),
     Obj(<<Prop(KtechStack, Arr(<<Q(<<>>), Q(<<"a">>), Q(<<"b", BS, QT, "c">>)>>)),
           Prop(Kdescription, Q(<<"{", "x", "}">>))>>),
     Obj(<<Prop(KprojectName, Q(<<"a", BS, QT, "b">>)),
           Prop(Kdescription, Q(<<"c", BS, QT>>))>>)}

WellFormed ==
    {ScenarioA, TwoFields, FenceInReadme, LongDescription}
    \cup {SixFields(WATool, n, WHashFoo) : n \in {0, ArrayLimit, MaxItems}}
    \cup {ArrayDoc(key, n) : key \in {KtechStack, Kfeatures, Kstructure},
                             n \in {0, 1, ArrayLimit, MaxItems}}
    \cup CoercionDocs \cup SpecialChars

\* texts that are JSON but no object, and texts that are no JSON
Primitives ==
    {<<"n", "u", "l", "l">>, <<"4", "2">>, <<"0">>, <<"t", "r", "u", "e">>,
     Q(WHello), Q(<<>>), Arr(<<<<"1">>, <<"2">>>>), <<"{", "}">>}

Garbage ==
    {WHello, <<" ">>, <<NL, " ">>, <<"{">>, <<"}">>, <<"}", "{">>, <<"{", "{", "}">>,
     ScenarioC, ScenarioD}

\* wrappers a model puts around its answer
Fenced(d) == Fence \o LitJson \o <<NL>> \o d \o <<NL>> \o Fence
FencedPlain(d) == Fence \o d \o Fence
InProse(d) == <<"H", "e", "r", "e", ":", " ">> \o d \o <<" ", "o", "k">>
Padded(d) == <<" ", NL>> \o d \o <<NL>>

\* a dangling comma before the closing brace: not JSON, and not repairable
TrailingComma(d) == Sub(d, 1, Len(d) - 1) \o <<",", "}">>

\* every proper prefix of a text: a completion cut off by the token budget
Prefixes(d) == {Sub(d, 1, n) : n \in 1..(Len(d) - 1)}

Completions ==
    {<<>>}
    \cup WellFormed \cup Primitives \cup Garbage
    \cup {Fenced(d) : d \in WellFormed \cup Primitives \cup Garbage}
    \cup {FencedPlain(d) : d \in WellFormed}
    \cup {InProse(d) : d \in WellFormed \cup Primitives}
    \cup {InProse(Fenced(d)) : d \in WellFormed}
    \cup {Padded(d) : d \in WellFormed \cup Primitives}
    \cup {TrailingComma(d) : d \in WellFormed}
    \cup Prefixes(ScenarioA) \cup Prefixes(Fenced(TwoFields))
    \cup Prefixes(ArrayDoc(KtechStack, MaxItems))

\* repoInfo as the serve handler assembles it from the provider's answers
Languages(names) == JObj([i \in 1..Len(names) |-> [k |-> names[i], x |-> JNum(100 * i)]])

Contexts ==
    {\* GitHub: no path; five languages
     [name |-> JStr(WFoo), path |-> JUndef, description |-> JStr(WATool),
      languages |-> Languages(<<WTS, <<"G", "o">>, <<"R", "u", "s", "t">>,
                                <<"C">>, <<"J", "a", "v", "a">>>>)],
     \* GitLab: path_with_namespace; null description; no language found
     [name |-> JStr(WFoo), path |-> JStr(WGroupFoo), description |-> JNull,
      languages |-> Languages(<<>>)],
     \* a provider answer with no name, an empty description and null for
     \* the languages
     [name |-> JUndef, path |-> JUndef, description |-> JStr(<<>>),
      languages |-> JNull]}

(***************************************************************************)
(* analyzeWithAI from the gateway's answer on (lines 177-224), one action  *)
(* per stage of the funnel.                                                *)
(***************************************************************************)
VARIABLES
    content,    \* data.choices[0].message.content
    repoInfo,   \* the context
    pc,         \* "content", "direct", "repair", "extract", "returned", "thrown"
    jsonStr,    \* the text the stages work on
    parsed,     \* what the last JSON.parse returned, as [ok, v]
    result,     \* the object analyzeWithAI returns
    returnedBy, \* the function whose value is returned
    error,      \* the message of the Error analyzeWithAI throws
    calls,      \* the calls made so far, in order, as [f, ok]
    service,    \* the edge function serving the request: "indexer", "review"
    request,    \* the request: [method, json, url]
    gateway,    \* how the AI gateway behaves in this run: [headers, status, body]
    spc,        \* position in the handler: "request", "fetch", "call",
                \* "gateway", "body", "analyze", "done"
    parsedUrl,  \* what parseRepoUrl / parseMRUrl returned
    fetched,    \* how each provider call ended and what it left
    timer,      \* the abort timer: "none", "armed", "cleared", "fired"
    response,   \* the Response returned: [status, body, at]
    diff,       \* the diff comparison page (part_007): its state and the
                \* position of handleCompare
    hist,       \* useTokenStorage: reviewHistory, the stored history and the
                \* state updates React has queued
    page,       \* the review page (MergeReview.tsx): its state, the position
                \* of handleReview and of the two notifications
    mrs         \* fetch-open-mrs: the request, the provider answers, allMRs
                \* and the Response

funnelVars == <<content, repoInfo, pc, jsonStr, parsed, result, returnedBy, error, calls>>
serviceVars == <<service, request, gateway, spc, parsedUrl, fetched, timer, response>>
clientVars == <<diff, hist, page, mrs>>
vars == <<funnelVars, serviceVars, clientVars>>

\* a component that does not take part in the run
Absent == [at |-> "absent"]
ClientsAbsent == diff = Absent /\ hist = Absent /\ page = Absent /\ mrs = Absent

NoResult == [projectName |-> JUndef, description |-> JUndef, techStack |-> JUndef,
             features |-> JUndef, structure |-> JUndef, readme |-> JUndef]
NotParsed == [ok |-> FALSE, v |-> JUndef]
Call(f, ok) == [f |-> f, ok |-> ok]

\* no Response yet; the request, the provider and the gateway left open
NoResponse == [status |-> 0, body |-> [none |-> TRUE], at |-> "none"]
NoRequest == [method |-> "POST", json |-> TRUE, url |-> JUndef]
NoUrl == [ok |-> FALSE]
NoFetch == [primary |-> "none"]
NoGateway == [headers |-> "none", status |-> 0, body |-> "none"]

Init ==
    /\ content \in Completions
    /\ repoInfo \in Contexts
    /\ pc = "content"
    /\ jsonStr = <<>>
    /\ parsed = NotParsed
    /\ result = NoResult
    /\ returnedBy = "none"
    /\ error = "none"
    /\ calls = <<>>
    \* the completion has been received: analyzeWithAI is at line 180
    /\ service = "indexer"
    /\ spc = "analyze"
    /\ request = NoRequest
    /\ parsedUrl = NoUrl
    /\ fetched = NoFetch
    /\ gateway = NoGateway
    /\ timer = "cleared"
    /\ response = NoResponse
    /\ ClientsAbsent

\* lines 180-200: the empty answer throws; otherwise trim, strip the fence,
\* slice to the braces
CleanUp ==
    /\ pc = "content"
    /\ service = "indexer"
    /\ IF content = <<>>
       THEN /\ pc' = "thrown"
            /\ error' = "No response from AI"
            /\ jsonStr' = jsonStr
       ELSE /\ pc' = "direct"
            /\ error' = error
            /\ jsonStr' = BoundaryExtract(content)
    /\ UNCHANGED <<content, repoInfo, parsed, result, returnedBy, calls>>
    /\ UNCHANGED <<serviceVars, clientVars>>

\* try { JSON.parse(text); return validateAndNormalize(...) } catch {}:
\* the calls it makes, and the state it leaves when control goes to `next`
Attempt(text, before, next) ==
    LET r == JSONparse(text)
        outcome == AttemptOutcome(text, repoInfo)
    IN
    /\ parsed' = [ok |-> r.ok, v |-> r.v]
    /\ calls' = calls \o before \o <<Call("JSON.parse", r.ok)>>
                \o (IF r.ok
                    THEN <<Call("validateAndNormalize", ~validateThrows(r.v, repoInfo))>>
                    ELSE <<>>)
    /\ IF outcome = "returned"
       THEN /\ result' = validateAndNormalize(r.v, repoInfo)
            /\ returnedBy' = "validateAndNormalize"
            /\ pc' = "returned"
            /\ error' = error
       ELSE IF outcome = "caught"
       THEN /\ pc' = next
            /\ UNCHANGED <<result, returnedBy, error>>
       ELSE /\ pc' = "thrown"
            /\ error' = "TypeError"
            /\ UNCHANGED <<result, returnedBy>>
    /\ UNCHANGED <<content, repoInfo, jsonStr>>
    /\ UNCHANGED <<serviceVars, clientVars>>

\* lines 202-210: first attempt, direct parse
DirectParse ==
    /\ pc = "direct"
    /\ Attempt(jsonStr, <<>>, "repair")

\* lines 212-220: second attempt, repair truncated JSON
RepairParse ==
    /\ pc = "repair"
    /\ Attempt(repairTruncatedJson(jsonStr),
               <<Call("repairTruncatedJson", TRUE)>>, "extract")

\* lines 222-224: third attempt, extract partial data using regex
RegexExtract ==
    /\ pc = "extract"
    /\ result' = extractPartialData(jsonStr, repoInfo)
    /\ returnedBy' = "extractPartialData"
    /\ calls' = Append(calls, Call("extractPartialData", TRUE))
    /\ pc' = "returned"
    /\ UNCHANGED <<content, repoInfo, jsonStr, parsed, error>>
    /\ UNCHANGED <<serviceVars, clientVars>>

Next == CleanUp \/ DirectParse \/ RepairParse \/ RegexExtract

Spec == Init /\ [][Next]_vars

(***************************************************************************)
(* The two edge functions: the indexer (part_003) and the review           *)
(* (part_002).  URL parsing.                                               *)
(***************************************************************************)
LitGitHub == <<"g", "i", "t", "h", "u", "b", ".", "c", "o", "m", "/">>
LitGitLab == <<"g", "i", "t", "l", "a", "b", ".", "c", "o", "m", "/">>
LitDotGit == <<".", "g", "i", "t">>
LitPull == <<"/", "p", "u", "l", "l", "/">>
LitMergeRequests == <<"/", "-", "/", "m", "e", "r", "g", "e", "_", "r", "e", "q", "u", "e", "s", "t", "s", "/">>

\* position of the first c at or after i, or the position after the end
UpTo(s, c, i) == IF IndexFrom(s, c, i) = 0 THEN Len(s) + 1 ELSE IndexFrom(s, c, i)

\* position after the run of digits starting at i  (\d+ when it is > i)
DigitsEnd(s, i) ==
    LET P == {k \in i..Len(s) : s[k] \notin Digits} IN
    IF P = {} THEN Len(s) + 1 ELSE FirstIn(P)

\* .replace(/\.git$/, "")
StripDotGit(s) ==
    IF At(s, Len(s) - Len(LitDotGit) + 1, LitDotGit)
    THEN Sub(s, 1, Len(s) - Len(LitDotGit)) ELSE s

\* github\.com\/([^\/]+)\/([^\/]+), with pull followed by \/pull\/(\d+),
\* tried at position k: the groups, or NoUrl
GitHubAt(url, k, pull) ==
    LET a == k + Len(LitGitHub)        \* start of the owner
        b == UpTo(url, "/", a) + 1     \* start of the repo
        c == UpTo(url, "/", b)         \* position after the repo
        n == c + Len(LitPull)          \* start of the number
    IN
    IF /\ At(url, k, LitGitHub)
       /\ b - 1 > a /\ b - 1 <= Len(url)
       /\ c > b
       /\ pull => At(url, c, LitPull) /\ DigitsEnd(url, n) > n
    THEN [ok |-> TRUE, platform |-> "github",
          owner |-> Sub(url, a, b - 2),
          repo |-> IF pull THEN Sub(url, b, c - 1) ELSE StripDotGit(Sub(url, b, c - 1)),
          mrNumber |-> IF pull THEN Sub(url, n, DigitsEnd(url, n) - 1) ELSE <<>>]
    ELSE NoUrl

\* gitlab\.com\/(.+) tried at position k; with merge:
\* gitlab\.com\/(.+)\/-\/merge_requests\/(\d+), the greedy .+ reaching to
\* the last /-/merge_requests/ that a digit follows.  The path is split
\* at its last / into owner and repo.
GitLabAt(url, k, merge) ==
    LET a == k + Len(LitGitLab)
        e == UpTo(url, NL, a)          \* . does not match a line break
        M == {m \in (a + 1)..(e - 1) :
                 /\ At(url, m, LitMergeRequests)
                 /\ m + Len(LitMergeRequests) <= Len(url)
                 /\ url[m + Len(LitMergeRequests)] \in Digits}
        path == IF merge THEN Sub(url, a, LastIn(M) - 1)
                ELSE StripDotGit(Sub(url, a, e - 1))
        n == LastIn(M) + Len(LitMergeRequests)
    IN
    IF At(url, k, LitGitLab) /\ e > a /\ (merge => M # {})
    THEN [ok |-> TRUE, platform |-> "gitlab",
          parts |-> Count(path, "/") + 1,
          owner |-> Sub(path, 1, lastIndexOf(path, "/") - 1),
          repo |-> Sub(path, lastIndexOf(path, "/") + 1, Len(path)),
          mrNumber |-> IF merge THEN Sub(url, n, DigitsEnd(url, n) - 1) ELSE <<>>]
    ELSE NoUrl

\* the first position where the pattern matches, or NoUrl
FirstMatch(url, At_(_, _, _), flag) ==
    LET P == {k \in 1..Len(url) : At_(url, k, flag).ok} IN
    IF P = {} THEN NoUrl ELSE At_(url, FirstIn(P), flag)

\* part_003 parseRepoUrl: a GitLab path of one part gives null
parseRepoUrl(url) ==
    IF FirstMatch(url, GitHubAt, FALSE).ok THEN FirstMatch(url, GitHubAt, FALSE)
    ELSE IF FirstMatch(url, GitLabAt, FALSE).ok
            /\ FirstMatch(url, GitLabAt, FALSE).parts >= 2
    THEN FirstMatch(url, GitLabAt, FALSE)
    ELSE NoUrl

\* part_002 parseMRUrl
parseMRUrl(url) ==
    IF FirstMatch(url, GitHubAt, TRUE).ok THEN FirstMatch(url, GitHubAt, TRUE)
    ELSE FirstMatch(url, GitLabAt, TRUE)

(***************************************************************************)
(* Requests, provider answers and gateway behaviours of a run.             *)
(***************************************************************************)
Urls ==
    {<<"h", "t", "t", "p", "s", ":", "/", "/", "g", "i", "t", "h", "u", "b", ".", "c", "o", "m", "/", "o", "/", "r", ".", "g", "i", "t">>,
     <<"h", "t", "t", "p", "s", ":", "/", "/", "g", "i", "t", "l", "a", "b", ".", "c", "o", "m", "/", "g", "/", "s", "/", "r">>,
     <<"h", "t", "t", "p", "s", ":", "/", "/", "g", "i", "t", "h", "u", "b", ".", "c", "o", "m", "/", "o", "/", "r", "/", "p", "u", "l", "l", "/", "7">>,
     <<"h", "t", "t", "p", "s", ":", "/", "/", "g", "i", "t", "l", "a", "b", ".", "c", "o", "m", "/", "g", "/", "r", "/", "-", "/", "m", "e", "r", "g", "e", "_", "r", "e", "q", "u", "e", "s", "t", "s", "/", "1", "2">>,
     <<"h", "t", "t", "p", "s", ":", "/", "/", "g", "i", "t", "h", "u", "b", ".", "c", "o", "m", "/", "o">>,
     <<"h", "t", "t", "p", "s", ":", "/", "/", "e", "x", "a", "m", "p", "l", "e", ".", "c", "o", "m", "/", "o", "/", "r">>}

\* a CORS preflight, a body that is not JSON, a body without URL or with
\* an empty one, and bodies with a URL
Requests ==
    {[method |-> "OPTIONS", json |-> TRUE, url |-> JUndef],
     [method |-> "POST", json |-> FALSE, url |-> JUndef]}
    \cup {[method |-> "POST", json |-> TRUE, url |-> u] :
             u \in {JUndef, JStr(<<>>)} \cup {JStr(x) : x \in Urls}}

\* the gateway never answers, the connection fails, it answers with a
\* status; after a 2xx status the body stalls, is not JSON, or is delivered
GatewayBehaviours ==
    {[headers |-> "never", status |-> 0, body |-> "never"],
     [headers |-> "rejects", status |-> 0, body |-> "never"]}
    \cup {[headers |-> "status", status |-> s, body |-> "never"] :
             s \in {429, 402, 500, 404}}
    \cup {[headers |-> "status", status |-> 200, body |-> b] :
             b \in {"never", "garbled", "delivered"}}

\* how a provider call ends: 2xx with a usable body, a non-2xx status, or
\* 2xx with a body that cannot be decoded or parsed
Outcomes == {"ok", "status", "garbled"}

Kstatus == <<"s", "t", "a", "t", "u", "s">>
Kissues == <<"i", "s", "s", "u", "e", "s">>
Ksummary == <<"s", "u", "m", "m", "a", "r", "y">>
Kline == <<"l", "i", "n", "e">>
Kseverity == <<"s", "e", "v", "e", "r", "i", "t", "y">>
Kmessage == <<"m", "e", "s", "s", "a", "g", "e">>

\* review-shaped completions
ReviewClean ==
    Obj(<<Prop(Kstatus, Q(<<"w", "a", "r", "n", "i", "n", "g", "s">>)),
          Prop(Kissues, Arr(<<Obj(<<Prop(Kline, <<"4", "2">>),
                                    Prop(Kseverity, Q(<<"w", "a", "r", "n", "i", "n", "g">>)),
                                    Prop(Kmessage, Q(WBar))>>)>>)),
          Prop(Ksummary, Q(WATool))>>)

ReviewFlawed ==
    Obj(<<Prop(Kstatus, Q(<<"b", "o", "g", "u", "s">>)),
          Prop(Kissues, Arr(<<Obj(<<Prop(Kline, Q(<<"x">>)),
                                    Prop(Kseverity, Q(<<"c", "r", "i", "t", "i", "c", "a", "l">>))>>)>>))>>)

\* the completions the gateway delivers to each edge function
Served(fn) ==
    IF fn = "indexer"
    THEN {<<>>, <<" ">>, <<NL, " ">>, ScenarioA, Fenced(TwoFields), ScenarioC,
          ScenarioD, <<"n", "u", "l", "l">>}
    ELSE {<<>>, <<" ">>, ReviewClean, ReviewFlawed, Fenced(ReviewClean),
          InProse(ReviewClean), Sub(ReviewClean, 1, Len(ReviewClean) - 12),
          WHello, <<"n", "u", "l", "l">>, <<"4", "2">>}

\* an Error's message: the text and, for a template, the number put in it
Message(text, n) == [text |-> text, n |-> n]

\* new Response(JSON.stringify({ error }), { status }); at is the place in
\* the handler that produced it
ErrorResponse(status, message, at) ==
    [status |-> status, body |-> [error |-> message], at |-> at]

\* new Response(JSON.stringify(obj)): members that are undefined are left
\* out, the status is 200
OkResponse(obj) ==
    [status |-> 200,
     body |-> [k \in {f \in DOMAIN obj : obj[f].t # "undef"} |-> obj[k]],
     at |-> "end"]

\* only 429 is told apart: 402 gets the generic message
GatewayErrorOnly429(status) ==
    IF status = 429
    THEN Message("Rate limit exceeded. Please try again later.", 0)
    ELSE Message("AI analysis failed: ", status)

\* if (!response.ok) { 429, 402, otherwise }
GatewayError(status) ==
    IF status = 429
    THEN Message("Rate limit exceeded. Please try again later.", 0)
    ELSE IF status = 402
    THEN Message("Payment required. Please add credits to continue.", 0)
    ELSE Message("AI analysis failed: ", status)

(***************************************************************************)
(* The provider calls: fetchGitHubRepo, fetchGitLabRepo (part_003) and     *)
(* fetchGitHubPR, fetchGitLabMR (part_002).  Each awaits its calls in      *)
(* order; a provider always answers.                                       *)
(***************************************************************************)
RepoCalls == <<"primary", "tree", "languages", "packageJson">>
ChangeCalls == <<"primary", "changes", "commits">>

\* a failure of the primary call is not thrown either
CallThrowsSecondaryOnly(platform, call, outcome) ==
    call # "primary" /\ outcome = "garbled"
        /\ ~(platform = "gitlab" /\ call = "packageJson")

\* the call throws: the primary call on a non-2xx status (throw new Error)
\* or an unreadable body (json() rejects); a secondary call on an
\* unreadable 2xx body, except GitLab's package.json, whose JSON.parse is
\* inside try {} catch {}
CallThrows(platform, call, outcome) ==
    IF call = "primary" THEN outcome # "ok"
    ELSE outcome = "garbled" /\ ~(platform = "gitlab" /\ call = "packageJson")

\* index of the first call that throws, or 0
FirstThrow(platform, order, o) ==
    LET P == {i \in 1..Len(order) : CallThrows(platform, order[i], o[order[i]])} IN
    IF P = {} THEN 0 ELSE FirstIn(P)

\* how each call ended; the calls after a throw are not made
Ran(platform, order, o) ==
    [c \in {order[i] : i \in 1..Len(order)} |->
        IF \E i \in 1..Len(order) :
               /\ order[i] = c
               /\ FirstThrow(platform, order, o) # 0
               /\ i > FirstThrow(platform, order, o)
        THEN "skipped" ELSE o[c]]

\* the message of the Error a call throws
FetchError(platform, call, outcome) ==
    IF call = "primary" /\ outcome = "status"
    THEN Message(IF platform = "github" THEN "GitHub API error: "
                 ELSE "GitLab API error: ", 404)
    ELSE Message("SyntaxError", 0)

\* fetchedData of the indexer: a field whose call did not return data keeps
\* its initial value ([] for the tree, {} for the languages, null for
\* packageJson)
RepoContext(platform, ran) ==
    [name |-> JStr(WFoo),
     path |-> IF platform = "gitlab" THEN JStr(WGroupFoo) ELSE JUndef,
     description |-> IF platform = "github" THEN JStr(WATool) ELSE JNull,
     tree |-> IF ran.tree = "ok" THEN JArr(<<JStr(WFoo)>>) ELSE JArr(<<>>),
     languages |-> IF ran.languages = "ok" THEN Languages(<<WTS, WReact>>)
                   ELSE JObj(<<>>),
     packageJson |-> IF ran.packageJson = "ok" THEN JObj(<<>>) ELSE JNull]

\* mrData of the review
ChangeContext(platform) ==
    [title |-> JStr(WFoo), author |-> JStr(WBar),
     description |-> IF platform = "github" THEN JStr(WATool) ELSE JNull]

NoContext == [name |-> JUndef, path |-> JUndef, description |-> JUndef,
              languages |-> JUndef]

(***************************************************************************)
(* The handlers, one action per step between two awaits.                   *)
(***************************************************************************)
ServiceInit ==
    /\ service \in {"indexer", "review"}
    /\ request \in Requests
    /\ gateway \in GatewayBehaviours
    /\ spc = "request"
    /\ parsedUrl = NoUrl
    /\ fetched = NoFetch
    /\ timer = "none"
    /\ response = NoResponse
    /\ content = <<>>
    /\ repoInfo = NoContext
    /\ pc = "idle"
    /\ jsonStr = <<>>
    /\ parsed = NotParsed
    /\ result = NoResult
    /\ returnedBy = "none"
    /\ error = "none"
    /\ calls = <<>>
    /\ ClientsAbsent

\* the handler ends with this Response
Reply(r) == response' = r /\ spc' = "done"

\* serve, part_003 lines 331-352 and part_002 lines 200-222
Receive ==
    /\ spc = "request"
    /\ LET url == IF service = "indexer" THEN parseRepoUrl(request.url.v)
                  ELSE parseMRUrl(request.url.v)
       IN
       IF request.method = "OPTIONS"
       THEN Reply([status |-> 200, body |-> [null |-> TRUE], at |-> "request"])
            /\ parsedUrl' = parsedUrl
       ELSE IF ~request.json
       THEN Reply(ErrorResponse(500, Message("SyntaxError", 0), "request"))
            /\ parsedUrl' = parsedUrl
       ELSE IF ~Truthy(request.url)
       THEN Reply(ErrorResponse(400,
                    Message(IF service = "indexer" THEN "Repository URL is required"
                            ELSE "Merge request URL is required", 0), "request"))
            /\ parsedUrl' = parsedUrl
       ELSE IF ~url.ok
       THEN Reply(ErrorResponse(400,
                    Message(IF service = "indexer"
                            THEN "Invalid repository URL. Supported: GitHub, GitLab"
                            ELSE "Invalid merge request URL. Supported: GitHub PRs, GitLab MRs",
                            0), "request"))
            /\ parsedUrl' = parsedUrl
       ELSE /\ parsedUrl' = url
            /\ spc' = "fetch"
            /\ response' = response
    /\ UNCHANGED <<funnelVars, clientVars, service, request, gateway, fetched, timer>>

\* the provider calls of a handler and the context it assembles from them
Fetch(order, context(_)) ==
    \E o \in [{order[i] : i \in 1..Len(order)} -> Outcomes] :
        /\ fetched' = Ran(parsedUrl.platform, order, o)
        /\ IF FirstThrow(parsedUrl.platform, order, o) # 0
           THEN /\ Reply(ErrorResponse(500,
                           FetchError(parsedUrl.platform,
                                      order[FirstThrow(parsedUrl.platform, order, o)],
                                      o[order[FirstThrow(parsedUrl.platform, order, o)]]),
                           "fetch"))
                /\ repoInfo' = repoInfo
           ELSE /\ repoInfo' = context(Ran(parsedUrl.platform, order, o))
                /\ spc' = "call"
                /\ response' = response
        /\ UNCHANGED <<content, pc, jsonStr, parsed, result, returnedBy, error, calls,
                       clientVars, service, request, gateway, parsedUrl, timer>>

\* part_003 lines 358-383 with fetchGitHubRepo / fetchGitLabRepo
FetchRepo ==
    /\ spc = "fetch"
    /\ service = "indexer"
    /\ LET context(ran) == RepoContext(parsedUrl.platform, ran) IN
       Fetch(RepoCalls, context)

\* part_002 lines 232-262 with fetchGitHubPR / fetchGitLabMR
FetchChange ==
    /\ spc = "fetch"
    /\ service = "review"
    /\ LET context(ran) == ChangeContext(parsedUrl.platform) IN
       Fetch(ChangeCalls, context)

\* analyzeWithAI lines 119-166, analyzeCodeWithAI lines 97-163: the key is
\* read, the indexer arms its abort timer, the request is sent
CallGateway ==
    /\ spc = "call"
    /\ \E configured \in BOOLEAN :
          IF ~configured
          THEN /\ Reply(ErrorResponse(500,
                          Message("LOVABLE_API_KEY is not configured", 0), "call"))
               /\ timer' = timer
          ELSE /\ spc' = "gateway"
               /\ timer' = IF service = "indexer" THEN "armed" ELSE "none"
               /\ response' = response
    /\ UNCHANGED <<funnelVars, clientVars, service, request, gateway, parsedUrl, fetched>>

\* the timer is left as it is
NotCleared == timer

\* clearTimeout(timeoutId): part_003 lines 168 and 227; the review has no
\* timer
Cleared == IF service = "indexer" THEN "cleared" ELSE timer

\* the fetch settles: it rejects, or resolves with the status line
\* (part_003 lines 168-175 and 226-232, part_002 lines 165-169)
GatewayAnswers ==
    /\ spc = "gateway"
    /\ gateway.headers \in {"rejects", "status"}
    /\ timer' = Cleared
    /\ IF gateway.headers = "rejects"
       THEN Reply(ErrorResponse(500, Message("TypeError", 0), "gateway"))
       ELSE IF gateway.status \notin 200..299
       THEN Reply(ErrorResponse(500, GatewayError(gateway.status), "gateway"))
       ELSE spc' = "body" /\ response' = response
    /\ UNCHANGED <<funnelVars, clientVars, service, request, gateway, parsedUrl, fetched>>

\* part_003 line 145 and lines 226-230: the timer aborts the pending fetch,
\* which rejects with an AbortError
TimerFires ==
    /\ timer = "armed"
    /\ spc = "gateway"
    /\ timer' = "fired"
    /\ Reply(ErrorResponse(500,
               Message("AI analysis timed out. Repository may be too large.", 0),
               "gateway"))
    /\ UNCHANGED <<funnelVars, clientVars, service, request, gateway, parsedUrl, fetched>>

\* await response.json() settles (part_003 lines 177-178, part_002 lines
\* 171-172): it rejects, or gives the completion
BodyArrives ==
    /\ spc = "body"
    /\ gateway.body \in {"garbled", "delivered"}
    /\ IF gateway.body = "garbled"
       THEN /\ Reply(ErrorResponse(500, Message("SyntaxError", 0), "body"))
            /\ UNCHANGED <<content, pc>>
       ELSE /\ content' \in Served(service)
            /\ pc' = "content"
            /\ spc' = "analyze"
            /\ response' = response
    /\ UNCHANGED <<repoInfo, jsonStr, parsed, result, returnedBy, error, calls,
                   clientVars, service, request, gateway, parsedUrl, fetched, timer>>

\* analyzeCodeWithAI lines 177-190: trim, strip the fence, slice to the
\* braces when both are found in order
ReviewBoundary(text) ==
    LET jsonStr_ == StripFence(text)
        jsonStart == indexOf(jsonStr_, "{")
        jsonEnd == lastIndexOf(jsonStr_, "}")
    IN
    IF jsonStart # 0 /\ jsonEnd # 0 /\ jsonStart < jsonEnd
    THEN Sub(jsonStr_, jsonStart, jsonEnd)
    ELSE jsonStr_

\* the result object of the review handler (part_002 lines 269-279); the
\* change counters and the review time are not modelled
ReviewResult(analysis, mrData) ==
    [mrTitle |-> mrData.title,
     author |-> mrData.author,
     status |-> Get(analysis, Kstatus),
     issues |-> Or(Get(analysis, Kissues), JArr(<<>>)),
     summary |-> Get(analysis, Ksummary)]

\* the Error the rest of the review handler throws, or "none": no
\* completion; JSON.parse failed; analysis.status read on null
ReviewError(text, r) ==
    IF text = <<>> THEN "No response from AI"
    ELSE IF ~r.ok THEN "AI returned invalid JSON response. Please try again."
    ELSE IF r.v.t = "null" THEN "TypeError"
    ELSE "none"

ReviewEnds(text, r) ==
    /\ jsonStr' = IF content = <<>> THEN jsonStr ELSE text
    /\ parsed' = IF content = <<>> THEN parsed ELSE [ok |-> r.ok, v |-> r.v]
    /\ calls' = IF content = <<>> THEN calls ELSE <<Call("JSON.parse", r.ok)>>
    /\ error' = ReviewError(content, r)
    /\ IF ReviewError(content, r) = "none"
       THEN /\ pc' = "returned"
            /\ result' = ReviewResult(r.v, repoInfo)
            /\ returnedBy' = "JSON.parse"
            /\ Reply(OkResponse(ReviewResult(r.v, repoInfo)))
       ELSE /\ pc' = "thrown"
            /\ UNCHANGED <<result, returnedBy>>
            /\ Reply(ErrorResponse(500, Message(ReviewError(content, r), 0), "analyze"))

\* analyzeCodeWithAI lines 174-198 and the handler's lines 265-291
ReviewParse ==
    /\ pc = "content"
    /\ service = "review"
    /\ ReviewEnds(ReviewBoundary(content), JSONparse(ReviewBoundary(content)))
    /\ UNCHANGED <<content, repoInfo, clientVars, service, request, gateway, parsedUrl,
                   fetched, timer>>

\* the indexer's handler after analyzeWithAI: part_003 lines 386-398
Respond ==
    /\ spc = "analyze"
    /\ service = "indexer"
    /\ pc \in {"returned", "thrown"}
    /\ IF pc = "returned"
       THEN Reply(OkResponse(result))
       ELSE Reply(ErrorResponse(500, Message(error, 0), "analyze"))
    /\ UNCHANGED <<funnelVars, clientVars, service, request, gateway, parsedUrl, fetched, timer>>

ServiceNext ==
    \/ Receive
    \/ FetchRepo
    \/ FetchChange
    \/ CallGateway
    \/ GatewayAnswers
    \/ TimerFires
    \/ BodyArrives
    \/ CleanUp
    \/ DirectParse
    \/ RepairParse
    \/ RegexExtract
    \/ ReviewParse
    \/ Respond

ServiceSpec == ServiceInit /\ [][ServiceNext]_vars

(***************************************************************************)
(* The diff comparison page (part_007): parseMRUrl, fetchGitHubPR,         *)
(* fetchGitLabMR, compareChanges and handleCompare.                        *)
(***************************************************************************)
\* gitlab\.com\/([^\/]+)\/([^\/]+)\/-\/merge_requests\/(\d+) tried at
\* position k: exactly two path segments before /-/merge_requests/
GitLabPairAt(url, k) ==
    LET a == k + Len(LitGitLab)              \* start of the owner
        b == UpTo(url, "/", a) + 1           \* start of the repo
        c == UpTo(url, "/", b)               \* position after the repo
        n == c + Len(LitMergeRequests)       \* start of the number
    IN
    IF /\ At(url, k, LitGitLab)
       /\ b - 1 > a /\ b - 1 <= Len(url)
       /\ c > b
       /\ At(url, c, LitMergeRequests) /\ DigitsEnd(url, n) > n
    THEN [ok |-> TRUE, platform |-> "gitlab",
          owner |-> Sub(url, a, b - 2),
          repo |-> Sub(url, b, c - 1),
          mrNumber |-> Sub(url, n, DigitsEnd(url, n) - 1)]
    ELSE NoUrl

\* parseMRUrl of the page, part_007 lines 62-76
pageParseMRUrl(url) ==
    LET P == {k \in 1..Len(url) : GitLabPairAt(url, k).ok} IN
    IF FirstMatch(url, GitHubAt, TRUE).ok
    THEN [x \in {"ok", "platform", "owner", "repo", "mrNumber"} |->
             FirstMatch(url, GitHubAt, TRUE)[x]]
    ELSE IF P # {} THEN GitLabPairAt(url, FirstIn(P))
    ELSE NoUrl

UrlPull == <<"h", "t", "t", "p", "s", ":", "/", "/", "g", "i", "t", "h", "u", "b", ".", "c", "o", "m", "/", "o", "/", "r", "/", "p", "u", "l", "l", "/", "7">>
UrlMergeRequest == <<"h", "t", "t", "p", "s", ":", "/", "/", "g", "i", "t", "l", "a", "b", ".", "c", "o", "m", "/", "g", "/", "r", "/", "-", "/", "m", "e", "r", "g", "e", "_", "r", "e", "q", "u", "e", "s", "t", "s", "/", "1", "2">>
UrlNestedMergeRequest == <<"h", "t", "t", "p", "s", ":", "/", "/", "g", "i", "t", "l", "a", "b", ".", "c", "o", "m", "/", "g", "/", "s", "/", "r", "/", "-", "/", "m", "e", "r", "g", "e", "_", "r", "e", "q", "u", "e", "s", "t", "s", "/", "1", "2">>
UrlRepo == <<"h", "t", "t", "p", "s", ":", "/", "/", "g", "i", "t", "h", "u", "b", ".", "c", "o", "m", "/", "o", "/", "r">>

\* what the user typed into the two fields
PageUrls == {<<>>, UrlPull, UrlMergeRequest, UrlNestedMergeRequest, UrlRepo}

\* how a provider call settles: a 2xx answer, another status, or the fetch
\* rejects
Settlements == {"ok", "status", "rejects"}

\* the files of the two merge requests as the providers report them
FileChange(filename, status) == [filename |-> filename, status |-> status]
FilesOf(which) ==
    IF which = "previous"
    THEN <<FileChange("a", "added"), FileChange("b", "modified"),
           FileChange("c", "added")>>
    ELSE <<FileChange("b", "modified"), FileChange("c", "removed"),
           FileChange("d", "added"), FileChange("e", "modified")>>

\* the MRDetails fetchGitHubPR / fetchGitLabMR return (lines 106-114,
\* 157-165)
MRDetails(which, parsedMR) ==
    [title |-> <<which, parsedMR.platform>>, filesChanged |-> FilesOf(which)]
NoDetails == [title |-> <<>>, filesChanged |-> <<>>]

Filenames(files) == {files[i].filename : i \in 1..Len(files)}
NamesWhere(files, Test(_)) ==
    LET kept == SelectSeq(files, Test) IN [i \in 1..Len(kept) |-> kept[i].filename]

\* compareChanges, lines 168-218
compareChanges(previous, current) ==
    LET previousFiles == Filenames(previous.filesChanged)
        currentFiles == Filenames(current.filesChanged)
        IsNew(f) == f.filename \notin previousFiles /\ f.status = "added"
        IsReverted(f) == f.filename \notin currentFiles /\ f.status = "added"
        IsRemoved(f) == f.status = "removed"
        IsModified(f) == f.status = "modified"
    IN
    [newFiles |-> NamesWhere(current.filesChanged, IsNew),
     modifiedFiles |-> NamesWhere(current.filesChanged, IsModified),
     removedFiles |-> NamesWhere(current.filesChanged, IsRemoved),
     revertedChanges |-> NamesWhere(previous.filesChanged, IsReverted),
     previousMR |-> previous,
     currentMR |-> current]
NoComparison == [null |-> TRUE]

\* the two calls of one Promise.all, and which settled first
Pending == [details |-> "pending", files |-> "pending", first |-> "none"]

\* the Error Promise.all (it rejects as soon as one call rejects) and the
\* check of lines 91-93 / 129-131 give for the two calls, or "none"; "wait"
\* while the promise is not settled
JoinError(pair, platform) ==
    IF "rejects" \in {pair.details, pair.files} THEN "Failed to fetch"
    ELSE IF "pending" \in {pair.details, pair.files} THEN "wait"
    ELSE IF "status" \in {pair.details, pair.files}
    THEN IF platform = "github" THEN "Failed to fetch GitHub PR details"
         ELSE "Failed to fetch GitLab MR details"
    ELSE "none"

DiffInit ==
    /\ diff \in {[at |-> "idle", previousMRUrl |-> p, currentMRUrl |-> c,
                  previousParsed |-> NoUrl, currentParsed |-> NoUrl,
                  which |-> "none",
                  previous |-> Pending, current |-> Pending,
                  previousMR |-> NoDetails, currentMR |-> NoDetails,
                  isComparing |-> FALSE, comparison |-> NoComparison,
                  toast |-> "none", description |-> "none"] :
                    p \in PageUrls, c \in PageUrls}
    /\ hist = Absent /\ page = Absent /\ mrs = Absent
    /\ content = <<>>
    /\ repoInfo = NoContext
    /\ pc = "idle"
    /\ jsonStr = <<>>
    /\ parsed = NotParsed
    /\ result = NoResult
    /\ returnedBy = "none"
    /\ error = "none"
    /\ calls = <<>>
    /\ service = "none"
    /\ request = NoRequest
    /\ gateway = NoGateway
    /\ spc = "none"
    /\ parsedUrl = NoUrl
    /\ fetched = NoFetch
    /\ timer = "none"
    /\ response = NoResponse

\* handleCompare up to its first await, lines 220-250
HandleCompare ==
    /\ diff.at = "idle"
    /\ diff' =
          IF diff.previousMRUrl = <<>> \/ diff.currentMRUrl = <<>>
          THEN [diff EXCEPT !.at = "done", !.toast = "Missing URLs",
                            !.description = "Please enter both MR URLs to compare"]
          ELSE IF ~pageParseMRUrl(diff.previousMRUrl).ok
                  \/ ~pageParseMRUrl(diff.currentMRUrl).ok
          THEN [diff EXCEPT !.at = "done", !.toast = "Invalid URLs",
                            !.previousParsed = pageParseMRUrl(diff.previousMRUrl),
                            !.currentParsed = pageParseMRUrl(diff.currentMRUrl),
                            !.description = "Please enter valid GitHub or GitLab MR URLs"]
          ELSE [diff EXCEPT !.at = "fetching", !.which = "previous",
                            !.previousParsed = pageParseMRUrl(diff.previousMRUrl),
                            !.currentParsed = pageParseMRUrl(diff.currentMRUrl),
                            !.isComparing = TRUE, !.comparison = NoComparison]
    /\ UNCHANGED <<funnelVars, serviceVars, hist, page, mrs>>

\* one of the two fetches of the Promise.all settles (lines 86-89, 124-127)
Settles(call) ==
    /\ diff[diff.which][call] = "pending"
    /\ \E o \in Settlements :
          diff' = [diff EXCEPT ![diff.which][call] = o,
                               ![diff.which].first =
                                   IF @ = "none" THEN call ELSE @]
    /\ UNCHANGED <<funnelVars, serviceVars, hist, page, mrs>>

DetailsSettle ==
    /\ diff.at = "fetching"
    /\ Settles("details")

FilesSettle ==
    /\ diff.at = "fetching"
    /\ Settles("files")

\* the await of the Promise.all resumes: lines 91-114 / 129-165, then
\* handleCompare's lines 250-277
Resume(failure, details) ==
    /\ diff' =
          IF failure # "none"
          THEN [diff EXCEPT !.at = "done", !.isComparing = FALSE,
                            !.toast = "Comparison Failed",
                            !.description = failure]
          ELSE IF diff.which = "previous"
          THEN [diff EXCEPT !.which = "current", !.previousMR = details]
          ELSE [diff EXCEPT !.at = "done", !.isComparing = FALSE,
                            !.currentMR = details,
                            !.comparison = compareChanges(diff.previousMR, details),
                            !.toast = "Comparison Complete",
                            !.description = "Compared"]
    /\ UNCHANGED <<funnelVars, serviceVars, hist, page, mrs>>

\* the merge request being fetched
ParsedNow == IF diff.which = "previous" THEN diff.previousParsed ELSE diff.currentParsed

AwaitAll ==
    /\ diff.at = "fetching"
    /\ JoinError(diff[diff.which], ParsedNow.platform) # "wait"
    /\ Resume(JoinError(diff[diff.which], ParsedNow.platform),
              MRDetails(diff.which, ParsedNow))

DiffNext == HandleCompare \/ DetailsSettle \/ FilesSettle \/ AwaitAll

DiffSpec == DiffInit /\ [][DiffNext]_vars

(***************************************************************************)
(* useTokenStorage (frontend/src/hooks/useTokenStorage.ts): the review     *)
(* history.  setReviewHistoryState queues an update; React applies the     *)
(* queued updates, in order, when it renders the component next.  An       *)
(* updater function is called then - or at the call itself when no other   *)
(* update is pending, which React does to bail out early.                  *)
(***************************************************************************)
HistoryLimit == 50
MaxReviews == 51     \* reviews added in one run
MaxPending == 2      \* calls between two renders

\* localStorage[REVIEW_HISTORY_KEY]: removed, or the list setItem wrote
NotStored == [present |-> FALSE, list |-> <<>>]
StoredAs(list) == [present |-> TRUE, list |-> list]

\* [review, ...prev.filter(r => r.id !== review.id)].slice(0, 50)
NotThis(id) == [r \in 1..MaxReviews |-> r # id]
Updated(prev, id) ==
    LET Keep(r) == NotThis(id)[r] IN
    slice(<<id>> \o SelectSeq(prev, Keep), HistoryLimit)

\* the updates a call queues
AddUpdate(id) == [op |-> "updater", id |-> id, value |-> <<>>]
SetUpdate(list) == [op |-> "value", id |-> 0, value |-> list]

\* React applies the queued updates from position i on: the state and the
\* storage afterwards.  The updater of addReviewToHistory writes the list
\* it computes to the storage (line 62).
RECURSIVE Drain(_, _, _, _)
Drain(queue, i, state, stored) ==
    IF i > Len(queue) THEN [reviewHistory |-> state, stored |-> stored]
    ELSE IF queue[i].op = "value"
    THEN Drain(queue, i + 1, queue[i].value, stored)
    ELSE Drain(queue, i + 1, Updated(state, queue[i].id),
               StoredAs(Updated(state, queue[i].id)))

HistoryInit ==
    /\ hist = [at |-> "mounted", reviewHistory |-> <<>>, stored |-> NotStored,
               queue |-> <<>>, next |-> 1, last |-> "none", lastId |-> 0]
    /\ diff = Absent /\ page = Absent /\ mrs = Absent
    /\ content = <<>>
    /\ repoInfo = NoContext
    /\ pc = "idle"
    /\ jsonStr = <<>>
    /\ parsed = NotParsed
    /\ result = NoResult
    /\ returnedBy = "none"
    /\ error = "none"
    /\ calls = <<>>
    /\ service = "none"
    /\ request = NoRequest
    /\ gateway = NoGateway
    /\ spc = "none"
    /\ parsedUrl = NoUrl
    /\ fetched = NoFetch
    /\ timer = "none"
    /\ response = NoResponse

\* the hook after addReviewToHistory(review), lines 58-65: the updater is
\* queued, or called at once when eager
WithReview(id, eager) ==
    [hist EXCEPT
        !.queue = Append(@, IF eager
                            THEN SetUpdate(Updated(hist.reviewHistory, id))
                            ELSE AddUpdate(id)),
        !.stored = IF eager THEN StoredAs(Updated(hist.reviewHistory, id))
                   ELSE @,
        !.next = IF id = @ THEN @ + 1 ELSE @,
        !.last = "add",
        !.lastId = id]

\* addReviewToHistory called with a new review, or with one whose id is in
\* use (the first one of the run)
AddReviewToHistory ==
    /\ hist.at = "mounted"
    /\ Len(hist.queue) < MaxPending
    /\ \E id \in {1, hist.next} : \E eager \in BOOLEAN :
          /\ id <= MaxReviews
          /\ eager => hist.queue = <<>>
          /\ hist' = WithReview(id, eager)
    /\ UNCHANGED <<funnelVars, serviceVars, diff, page, mrs>>

\* clearHistory(), lines 67-70
ClearHistory ==
    /\ hist.at = "mounted"
    /\ Len(hist.queue) < MaxPending
    /\ hist' = [hist EXCEPT !.queue = Append(@, SetUpdate(<<>>)),
                            !.stored = NotStored,
                            !.last = "clear",
                            !.lastId = 0]
    /\ UNCHANGED <<funnelVars, serviceVars, diff, page, mrs>>

\* React renders the component: the queued updates are applied
Render ==
    /\ hist.at = "mounted"
    /\ hist.queue # <<>>
    /\ hist' = [hist EXCEPT
          !.reviewHistory = Drain(hist.queue, 1, hist.reviewHistory, hist.stored).reviewHistory,
          !.stored = Drain(hist.queue, 1, hist.reviewHistory, hist.stored).stored,
          !.queue = <<>>]
    /\ UNCHANGED <<funnelVars, serviceVars, diff, page, mrs>>

HistoryNext == AddReviewToHistory \/ ClearHistory \/ Render

HistorySpec == HistoryInit /\ [][HistoryNext]_vars

(***************************************************************************)
(* The review page (frontend/src/pages/MergeReview.tsx): handleReview,     *)
(* sendEmailNotification, sendTelegramNotification and the Start Review    *)
(* button.                                                                 *)
(***************************************************************************)
MaxRuns == 3     \* reviews started in one run of the page

\* how review-merge-request answers the page: a result, an invoke error, a
\* body with an error member
ReviewAnswers == {"ok", "error", "dataError"}

\* how a notification request ends: sent, refused by the service, or the
\* request itself throws (fetch rejects, response.json() rejects, process
\* is not defined)
NotificationEnds == {"ok", "refused", "throws"}

\* whether the promise of a notification rejects: never, each function
\* catches what its try block throws (lines 161-170, 206-215)
RejectsUncaught(outcome) == outcome # "ok"
Rejects(outcome) == FALSE

\* isLoading after handleReview's finally (lines 286-288)
NotReleased == page.isLoading
Released == FALSE

NoNotification == [state |-> "idle", rejected |-> FALSE]

PageInit ==
    /\ page \in {[at |-> "idle", mrUrl |-> u, runs |-> 0, inflight |-> 0,
                  isLoading |-> FALSE, isSendingEmail |-> FALSE,
                  isSendingTelegram |-> FALSE, result |-> "null",
                  email |-> NoNotification, telegram |-> NoNotification,
                  entry |-> 0, toasts |-> {}] : u \in {<<>>, UrlPull}}
    /\ hist = [at |-> "mounted", reviewHistory |-> <<>>, stored |-> NotStored,
               queue |-> <<>>, next |-> 1, last |-> "none", lastId |-> 0]
    /\ diff = Absent /\ mrs = Absent
    /\ content = <<>>
    /\ repoInfo = NoContext
    /\ pc = "idle"
    /\ jsonStr = <<>>
    /\ parsed = NotParsed
    /\ result = NoResult
    /\ returnedBy = "none"
    /\ error = "none"
    /\ calls = <<>>
    /\ service = "none"
    /\ request = NoRequest
    /\ gateway = NoGateway
    /\ spc = "none"
    /\ parsedUrl = NoUrl
    /\ fetched = NoFetch
    /\ timer = "none"
    /\ response = NoResponse

\* a click on Start Review (lines 421-426: disabled while isLoading), then
\* handleReview up to its await (lines 218-244)
StartReview ==
    /\ page.at # "absent"
    /\ ~page.isLoading
    /\ page.runs < MaxRuns
    /\ page' =
          IF page.mrUrl = <<>>
          THEN [page EXCEPT !.runs = @ + 1, !.toasts = {"mrUrlRequired"}]
          ELSE [page EXCEPT !.at = "review", !.runs = @ + 1,
                            !.inflight = @ + 1,
                            !.isLoading = TRUE, !.result = "null",
                            !.email = NoNotification,
                            !.telegram = NoNotification,
                            !.entry = 0, !.toasts = {}]
    /\ UNCHANGED <<funnelVars, serviceVars, diff, hist, mrs>>

\* the await of the review resumes (lines 246-278): on an error the catch
\* and the finally run; otherwise the result is shown, the history entry is
\* recorded and both notifications are started
ReviewSettles ==
    /\ page.at = "review"
    /\ \E answer \in ReviewAnswers :
          IF answer # "ok"
          THEN /\ page' = [page EXCEPT !.at = "idle", !.inflight = @ - 1,
                                       !.toasts = @ \cup {"reviewFailed"},
                                       !.isLoading = Released]
               /\ hist' = hist
          ELSE /\ page' = [page EXCEPT !.at = "notify", !.inflight = @ - 1,
                                       !.result = "data",
                                       !.entry = hist.next,
                                       !.toasts = @ \cup {"reviewComplete"},
                                       !.isSendingEmail = TRUE,
                                       !.email.state = "sending",
                                       !.isSendingTelegram = TRUE,
                                       !.telegram.state = "sending"]
               /\ hist' = WithReview(hist.next, FALSE)
    /\ UNCHANGED <<funnelVars, serviceVars, diff, mrs>>

\* sendEmailNotification after its await, lines 153-170
EmailSettles ==
    /\ page.at \in {"notify", "idle"}
    /\ page.email.state = "sending"
    /\ \E outcome \in {"ok", "refused"} :
          page' = [page EXCEPT
              !.email = [state |-> IF outcome = "ok" THEN "sent" ELSE "failed",
                         rejected |-> Rejects(outcome)],
              !.toasts = @ \cup {IF outcome = "ok" THEN "emailSent" ELSE "emailFailed"},
              !.isSendingEmail = FALSE]
    /\ UNCHANGED <<funnelVars, serviceVars, diff, hist, mrs>>

\* sendTelegramNotification after its awaits, lines 196-215
TelegramSettles ==
    /\ page.at \in {"notify", "idle"}
    /\ page.telegram.state = "sending"
    /\ \E outcome \in NotificationEnds :
          page' = [page EXCEPT
              !.telegram = [state |-> IF outcome = "ok" THEN "sent" ELSE "failed",
                            rejected |-> Rejects(outcome)],
              !.toasts = @ \cup {IF outcome = "ok" THEN "telegramSent"
                                 ELSE "telegramFailed"},
              !.isSendingTelegram = FALSE]
    /\ UNCHANGED <<funnelVars, serviceVars, diff, hist, mrs>>

\* the await of Promise.all resumes (lines 275-288): it rejects as soon as
\* one notification rejects, and resolves when both are settled
NotificationsJoined ==
    /\ page.at = "notify"
    /\ \/ page.email.rejected \/ page.telegram.rejected
       \/ "sending" \notin {page.email.state, page.telegram.state}
    /\ page' = [page EXCEPT
          !.at = "idle",
          !.toasts = IF page.email.rejected \/ page.telegram.rejected
                     THEN @ \cup {"reviewFailed"} ELSE @,
          !.isLoading = Released]
    /\ UNCHANGED <<funnelVars, serviceVars, diff, hist, mrs>>

PageNext ==
    \/ StartReview
    \/ ReviewSettles
    \/ EmailSettles
    \/ TelegramSettles
    \/ NotificationsJoined
    \/ Render

PageSpec == PageInit /\ [][PageNext]_vars

\* every request the page awaits settles, and React renders
PageFairSpec ==
    /\ PageSpec
    /\ WF_vars(ReviewSettles)
    /\ WF_vars(EmailSettles)
    /\ WF_vars(TelegramSettles)
    /\ WF_vars(NotificationsJoined)
    /\ WF_vars(Render)

(***************************************************************************)
(* The open merge requests service                                         *)
(* (frontend/supabase/functions/fetch-open-mrs/index.ts).                  *)
(***************************************************************************)
RepoLimit == 10     \* repos.slice(0, 10), projects.slice(0, 10)
MaxRepos == 2       \* repositories a provider lists, apart from the long listing

\* created_at of the merge requests of the run, and new Date(s).getTime()
\* in seconds
CreatedFirst == "2023-12-31T23:59:59Z"
CreatedSecond == "2024-01-01T00:00:00Z"
CreatedThird == "2024-03-05T10:00:00Z"
getTime(createdAt) ==
    CASE createdAt = CreatedFirst -> 1704067199
      [] createdAt = CreatedSecond -> 1704067200
      [] createdAt = CreatedThird -> 1709632800

\* one repository of a provider: how the call that lists its open merge
\* requests ends, and the created_at of those it has
RepoWorlds(dates) ==
    {[outcome |-> "ok", prs |-> <<>>]}
    \cup {[outcome |-> "ok", prs |-> <<d>>] : d \in dates}
    \cup {[outcome |-> o, prs |-> <<CHOOSE d \in dates : TRUE>>] : o \in {"status", "rejects"}}

\* more repositories than the service looks at
LongListing(dates) ==
    [i \in 1..(RepoLimit + 1) |->
        [outcome |-> "ok",
         prs |-> <<IF i % 2 = 0 THEN CreatedThird ELSE CHOOSE d \in dates : TRUE>>]]

Listings(dates) ==
    UNION {[1..n -> RepoWorlds(dates)] : n \in 0..MaxRepos} \cup {LongListing(dates)}

\* a provider as the service finds it: the calls before the loop and the
\* repositories
ProviderWorlds(dates) ==
    {[user |-> "ok", repos |-> "ok", listing |-> l] : l \in Listings(dates)}
    \cup {[user |-> "status", repos |-> "ok", listing |-> <<>>],
          [user |-> "ok", repos |-> "status", listing |-> <<>>]}
ProviderUnused == [user |-> "ok", repos |-> "ok", listing |-> <<>>]

\* an OpenMR, lines 54-63 and 103-112
OpenMR(platform, repo, number, createdAt) ==
    [platform |-> platform, repo |-> repo, number |-> number, createdAt |-> createdAt]

ProviderCall(platform, what, repo, outcome) ==
    [platform |-> platform, what |-> what, repo |-> repo, outcome |-> outcome]

\* the loop over the repositories, lines 45-69 and 94-118: a listing that
\* is not ok, or whose call throws, adds nothing
RECURSIVE ListEach(_, _, _, _)
ListEach(platform, listing, i, sofar) ==
    IF i > Len(listing) THEN sofar
    ELSE ListEach(platform, listing, i + 1,
            [prs |-> IF listing[i].outcome = "ok"
                     THEN sofar.prs \o [n \in 1..Len(listing[i].prs) |->
                                           OpenMR(platform, i, n, listing[i].prs[n])]
                     ELSE sofar.prs,
             calls |-> Append(sofar.calls,
                              ProviderCall(platform, "list", i, listing[i].outcome)),
             threw |-> FALSE])

\* fetchGitHubOpenPRs, lines 19-72
fetchGitHubOpenPRs(world) ==
    IF world.user # "ok"
    THEN [prs |-> <<>>, threw |-> TRUE,
          calls |-> <<ProviderCall("github", "user", 0, world.user)>>]
    ELSE IF world.repos # "ok"
    THEN [prs |-> <<>>, threw |-> TRUE,
          calls |-> <<ProviderCall("github", "user", 0, world.user),
                      ProviderCall("github", "repos", 0, world.repos)>>]
    ELSE ListEach("github", slice(world.listing, RepoLimit), 1,
            [prs |-> <<>>, threw |-> FALSE,
             calls |-> <<ProviderCall("github", "user", 0, world.user),
                         ProviderCall("github", "repos", 0, world.repos)>>])

\* fetchGitLabOpenMRs, lines 74-121: it makes no user call
fetchGitLabOpenMRs(world) ==
    IF world.repos # "ok"
    THEN [prs |-> <<>>, threw |-> TRUE,
          calls |-> <<ProviderCall("gitlab", "repos", 0, world.repos)>>]
    ELSE ListEach("gitlab", slice(world.listing, RepoLimit), 1,
            [prs |-> <<>>, threw |-> FALSE,
             calls |-> <<ProviderCall("gitlab", "repos", 0, world.repos)>>])

\* the comparator of line 163
compareOldestFirst(a, b) == getTime(a.createdAt) - getTime(b.createdAt)
compare(a, b) == getTime(b.createdAt) - getTime(a.createdAt)

\* Array.prototype.sort with that comparator: stable
InsertSorted(sorted, x) ==
    LET after == {i \in 1..Len(sorted) : compare(sorted[i], x) <= 0}
        at == IF after = {} THEN 0 ELSE LastIn(after)
    IN  Sub(sorted, 1, at) \o <<x>> \o Sub(sorted, at + 1, Len(sorted))

RECURSIVE sort(_)
sort(list) ==
    IF list = <<>> THEN <<>>
    ELSE InsertSorted(sort(Sub(list, 1, Len(list) - 1)), list[Len(list)])

\* the bodies a request can have: not JSON, or an object with the tokens
\* ("" stands for a missing or empty one)
Unreadable == [readable |-> FALSE, githubToken |-> "", gitlabToken |-> ""]
RequestBodies ==
    {Unreadable}
    \cup {[readable |-> TRUE, githubToken |-> g, gitlabToken |-> l] :
            g \in {"", "ghp"}, l \in {"", "glpat"}}

NotAnswered == [status |-> 0, error |-> "none", mrs |-> <<>>]

OpenMRsInit ==
    /\ mrs \in {[at |-> "received", method |-> m, body |-> b,
                 github |-> g, gitlab |-> l,
                 allMRs |-> <<>>, calls |-> <<>>, response |-> NotAnswered] :
                   m \in {"POST"}, b \in RequestBodies,
                   g \in ProviderWorlds({CreatedFirst, CreatedThird}),
                   l \in ProviderWorlds({CreatedSecond, CreatedThird})}
              \cup
              {[at |-> "received", method |-> "OPTIONS", body |-> Unreadable,
                github |-> ProviderUnused, gitlab |-> ProviderUnused,
                allMRs |-> <<>>, calls |-> <<>>, response |-> NotAnswered]}
    /\ mrs.body.githubToken = "" => mrs.github = ProviderUnused
    /\ mrs.body.gitlabToken = "" => mrs.gitlab = ProviderUnused
    /\ diff = Absent /\ hist = Absent /\ page = Absent
    /\ content = <<>>
    /\ repoInfo = NoContext
    /\ pc = "idle"
    /\ jsonStr = <<>>
    /\ parsed = NotParsed
    /\ result = NoResult
    /\ returnedBy = "none"
    /\ error = "none"
    /\ calls = <<>>
    /\ service = "none"
    /\ request = NoRequest
    /\ gateway = NoGateway
    /\ spc = "none"
    /\ parsedUrl = NoUrl
    /\ fetched = NoFetch
    /\ timer = "none"
    /\ response = NoResponse

\* serve up to the first provider, lines 123-138
ServeOpenMRs ==
    /\ mrs.at = "received"
    /\ mrs' =
          IF mrs.method = "OPTIONS"
          THEN [mrs EXCEPT !.at = "done", !.response.status = 200]
          ELSE IF ~mrs.body.readable
          THEN [mrs EXCEPT !.at = "done",
                           !.response.status = 500,
                           !.response.error = "Unexpected end of JSON input"]
          ELSE IF mrs.body.githubToken = "" /\ mrs.body.gitlabToken = ""
          THEN [mrs EXCEPT !.at = "done",
                           !.response.status = 400,
                           !.response.error =
                               "At least one token (GitHub or GitLab) is required"]
          ELSE [mrs EXCEPT !.at = "github"]
    /\ UNCHANGED <<funnelVars, serviceVars, diff, hist, page>>

\* lines 140-149
GitHubFetched ==
    /\ mrs.at = "github"
    /\ mrs' =
          IF mrs.body.githubToken = ""
          THEN [mrs EXCEPT !.at = "gitlab"]
          ELSE [mrs EXCEPT !.at = "gitlab",
                           !.calls = @ \o fetchGitHubOpenPRs(mrs.github).calls,
                           !.allMRs = @ \o fetchGitHubOpenPRs(mrs.github).prs]
    /\ UNCHANGED <<funnelVars, serviceVars, diff, hist, page>>

\* lines 151-160
GitLabFetched ==
    /\ mrs.at = "gitlab"
    /\ mrs' =
          IF mrs.body.gitlabToken = ""
          THEN [mrs EXCEPT !.at = "sort"]
          ELSE [mrs EXCEPT !.at = "sort",
                           !.calls = @ \o fetchGitLabOpenMRs(mrs.gitlab).calls,
                           !.allMRs = @ \o fetchGitLabOpenMRs(mrs.gitlab).prs]
    /\ UNCHANGED <<funnelVars, serviceVars, diff, hist, page>>

\* lines 162-168
OpenMRsAnswered ==
    /\ mrs.at = "sort"
    /\ mrs' = [mrs EXCEPT !.at = "done",
                          !.allMRs = sort(mrs.allMRs),
                          !.response.status = 200,
                          !.response.mrs = sort(mrs.allMRs)]
    /\ UNCHANGED <<funnelVars, serviceVars, diff, hist, page>>

OpenMRsNext ==
    \/ ServeOpenMRs
    \/ GitHubFetched
    \/ GitLabFetched
    \/ OpenMRsAnswered

OpenMRsSpec == OpenMRsInit /\ [][OpenMRsNext]_vars

(***************************************************************************)
(* Vocabulary of the properties.                                           *)
(***************************************************************************)
ScalarFields == {"projectName", "description", "readme"}
ArrayFields == {"techStack", "features", "structure"}
Key(field) == CASE field = "projectName" -> KprojectName
                [] field = "description" -> Kdescription
                [] field = "techStack" -> KtechStack
                [] field = "features" -> Kfeatures
                [] field = "structure" -> Kstructure
                [] field = "readme" -> Kreadme

\* a returned object as the value JSON.parse would give for its serialization
AsObject(r) == JObj([i \in 1..6 |->
    LET f == <<"projectName", "description", "techStack",
               "features", "structure", "readme">>[i]
    IN [k |-> Key(f), x |-> r[f]]])

IsStringArray(x) == x.t = "arr" /\ \A i \in 1..Len(x.v) : x.v[i].t = "str"

\* all six fields present with their declared types
FullyPopulated(r) ==
    /\ \A f \in ScalarFields : r[f].t = "str"
    /\ \A f \in ArrayFields : IsStringArray(r[f])

Called(f) == \E i \in 1..Len(calls) : calls[i].f = f
CalledWith(f, ok) == \E i \in 1..Len(calls) : calls[i] = Call(f, ok)

\* the value of the completion when the completion is JSON as it stands
Answer == JSONparse(content)

\* the answer is an object that matches the indexer schema exactly
SchemaExact(x) ==
    /\ x.t = "obj"
    /\ Len(x.v) = 6
    /\ \A f \in ScalarFields \cup ArrayFields : HasKey(x.v, Key(f))
    /\ \A f \in ScalarFields : Get(x, Key(f)).t = "str" /\ Get(x, Key(f)).v # <<>>
    /\ \A f \in ArrayFields :
          /\ IsStringArray(Get(x, Key(f)))
          /\ Len(Get(x, Key(f)).v) <= ArrayLimit

(***************************************************************************)
(* C1 (totality): for every non-empty completion and every context the     *)
(* funnel never throws, and the object it returns has all six fields with  *)
(* their declared types (strings and arrays of strings).                   *)
(***************************************************************************)
C1_Totality ==
    content # <<>> =>
        /\ pc # "thrown"
        /\ pc = "returned" => FullyPopulated(result)

\* a TypeError of validateAndNormalize was absorbed and an object returned
C1_Witness ==
    /\ content # <<>>
    /\ pc = "returned"
    /\ CalledWith("validateAndNormalize", FALSE)

(***************************************************************************)
(* C2 (round trip): a completion that is a well-formed JSON object exactly *)
(* matching the schema is returned field for field, whatever characters    *)
(* its string values hold.                                                 *)
(***************************************************************************)
C2_RoundTrip ==
    (pc = "returned" /\ Answer.ok /\ SchemaExact(Answer.v)) =>
        \A f \in ScalarFields \cup ArrayFields : result[f] = Get(Answer.v, Key(f))

(***************************************************************************)
(* C3 (bounding): the returned arrays hold at most 5 elements and the      *)
(* description and the readme are no longer than the declared 100 and 800  *)
(* characters.                                                             *)
(***************************************************************************)
C3_Bounded ==
    pc = "returned" =>
        /\ \A f \in ArrayFields : Len(result[f].v) <= ArrayLimit
        /\ Len(result.description.v) <= MaxDescriptionChars
        /\ Len(result.readme.v) <= MaxReadmeChars

(***************************************************************************)
(* C4 (first five): an array field of more than 5 elements comes out as    *)
(* its first 5 elements in order, both when the answer was parsed          *)
(* (validateAndNormalize) and when it was recovered by extractArray from   *)
(* an answer that does not parse (here: a dangling comma before the last   *)
(* brace of a well-formed answer d).                                       *)
(***************************************************************************)
FirstFive(x) == JArr(MapString(slice(x.v, ArrayLimit)))

C4_FirstFive ==
    \A d \in WellFormed : \A f \in ArrayFields :
        (/\ pc = "returned"
         /\ content \in {d, TrailingComma(d)}
         /\ Get(JSONparse(d).v, Key(f)).t = "arr"
         /\ Len(Get(JSONparse(d).v, Key(f)).v) > ArrayLimit)
        => result[f] = FirstFive(Get(JSONparse(d).v, Key(f)))

(***************************************************************************)
(* C5 (idempotence): validateAndNormalize applied to its own result, with  *)
(* the same context, returns that result.                                  *)
(***************************************************************************)
C5_Idempotent ==
    (parsed.ok /\ ~validateThrows(parsed.v, repoInfo)) =>
        validateAndNormalize(AsObject(validateAndNormalize(parsed.v, repoInfo)),
                             repoInfo)
        = validateAndNormalize(parsed.v, repoInfo)

(***************************************************************************)
(* C6 (validation always applied): whatever stage produced the data, the   *)
(* returned object has passed through validateAndNormalize.                *)
(***************************************************************************)
C6_AlwaysValidated ==
    pc = "returned" => returnedBy = "validateAndNormalize"

(***************************************************************************)
(* C7 (defaults): whichever stage produced the data, an absent or empty    *)
(* projectName becomes the context's repository name, an absent or empty   *)
(* description the context's description or a generic sentence, and an     *)
(* absent or empty techStack the first language names of the context.      *)
(***************************************************************************)
\* what the model produced for a field, by the stage that produced the data
Produced(field) ==
    IF returnedBy = "validateAndNormalize" THEN Get(parsed.v, Key(field))
    ELSE IF field \in ArrayFields THEN extractArray(jsonStr, Key(field))
    ELSE IF MatchScalar(jsonStr, Key(field)).ok
         THEN JStr(MatchScalar(jsonStr, Key(field)).v)
    ELSE JUndef

AbsentOrEmpty(x) ==
    \/ x.t \in {"undef", "null"}
    \/ x.t \in {"str", "arr"} /\ Len(x.v) = 0

TopLanguages(c) ==
    IF c.languages.t = "obj"
    THEN JArr([i \in 1..Min(LanguageLimit, Len(c.languages.v)) |->
                  JStr(c.languages.v[i].k)])
    ELSE JArr(<<>>)

GenericSentences == {LitSoftwareProject, LitAnalysisCompleted}

C7_Defaults ==
    pc = "returned" =>
        /\ (AbsentOrEmpty(Produced("projectName")) /\ Truthy(repoInfo.name))
               => result.projectName = repoInfo.name
        /\ AbsentOrEmpty(Produced("description"))
               => IF Truthy(repoInfo.description)
                  THEN result.description = repoInfo.description
                  ELSE result.description.v \in GenericSentences
        /\ (AbsentOrEmpty(Produced("techStack")) \/ Produced("techStack").t # "arr")
               => result.techStack = TopLanguages(repoInfo)

(***************************************************************************)
(* C8 (stage order): the stages run in the order direct parse, repair and  *)
(* re-parse, regex extraction; repairTruncatedJson is invoked only after   *)
(* the direct JSON.parse failed, extractPartialData only after the repaired*)
(* text failed to parse, and a JSON.parse that succeeds ends the funnel    *)
(* (only its validation follows).                                          *)
(***************************************************************************)
C8_StageOrder ==
    /\ Called("repairTruncatedJson") => calls[1] = Call("JSON.parse", FALSE)
    /\ \A i \in 1..Len(calls) :
          calls[i].f = "extractPartialData" =>
              /\ i = Len(calls)
              /\ \E j \in 2..(i - 2) :
                    /\ calls[j].f = "repairTruncatedJson"
                    /\ calls[j + 1] = Call("JSON.parse", FALSE)
    /\ \A i \in 1..Len(calls) : \A j \in (i + 1)..Len(calls) :
          calls[i] = Call("JSON.parse", TRUE) =>
              calls[j].f = "validateAndNormalize" /\ j = i + 1 /\ j = Len(calls)

(***************************************************************************)
(* C9 (no brace): when the text left after fence stripping holds no {,     *)
(* neither the direct parse nor the repair is attempted, and the object    *)
(* returned is the result of regex extraction.                             *)
(***************************************************************************)
NoBrace == indexOf(StripFence(content), "{") = 0

C9_NoBraceSkipsParsing ==
    (content # <<>> /\ NoBrace) =>
        /\ ~Called("JSON.parse")
        /\ ~Called("repairTruncatedJson")
        /\ pc = "returned" => result = extractPartialData(jsonStr, repoInfo)

(***************************************************************************)
(* C10 (boundary extraction): a code fence is removed only when it wraps   *)
(* the completion (leading fence with optional json tag, trailing fence),  *)
(* and the text handed to the direct parse is the span from the first { to *)
(* the last } of what remains; for a completion that is not wrapped, of    *)
(* the original text.                                                      *)
(***************************************************************************)
Wrapped(s) ==
    /\ Len(s) >= 2 * Len(Fence)
    /\ At(s, 1, Fence)
    /\ At(s, Len(s) - Len(Fence) + 1, Fence)

Unwrapped(s) ==
    trim(Sub(s, IF At(s, 4, LitJson) THEN 8 ELSE 4, Len(s) - Len(Fence)))

C10_FenceOnlyWhenWrapping ==
    pc \in {"direct", "repair", "extract", "returned"} =>
        jsonStr = SliceBraces(IF Wrapped(trim(content))
                              THEN Unwrapped(trim(content))
                              ELSE trim(content))

(***************************************************************************)
(* C11 (cut inside a string value): when the completion is cut off inside  *)
(* the string value of a property, after at least one complete property,   *)
(* the repair closes the string and the braces, the repaired text parses,  *)
(* and the result is that of the closed text: the cut property keeps its   *)
(* value up to the cut, the other fields are defaulted.                    *)
(***************************************************************************)
\* the text with its open string and its open braces closed, nothing removed
Closed(s) == CloseObjects(CloseString(s))

\* s ends inside the string value of the last of at least two properties
CutInsideStringValue(s) ==
    /\ Count(s, QT) % 2 = 1
    /\ Count(s, "{") > Count(s, "}")
    /\ At(s, 1, <<"{">>)
    /\ JSONparse(Closed(s)).ok
    /\ JSONparse(Closed(s)).v.t = "obj"
    /\ Len(JSONparse(Closed(s)).v.v) >= 2
    /\ JSONparse(Closed(s)).v.v[Len(JSONparse(Closed(s)).v.v)].x
           = JStr(Sub(s, lastIndexOf(s, QT) + 1, Len(s)))

C11_CutStringKept ==
    (pc = "returned" /\ CutInsideStringValue(content)) =>
        /\ CalledWith("repairTruncatedJson", TRUE)
        /\ returnedBy = "validateAndNormalize"
        /\ result = validateAndNormalize(JSONparse(Closed(content)).v, repoInfo)

(***************************************************************************)
(* C12 (prose that mentions techStack): for a completion without { that    *)
(* mentions techStack followed by quoted items and holds no                *)
(* "projectName":"..." literal, regex extraction returns the quoted items  *)
(* in order as techStack and the project name of the context.              *)
(***************************************************************************)
\* the quoted items that follow the first mention of techStack
MentionedItems(s) ==
    IF FindFrom(s, KtechStack, 1) = 0 THEN <<>>
    ELSE QuotedItems(s, FindFrom(s, KtechStack, 1) + Len(KtechStack))

ProseWithTechStack(s) ==
    /\ indexOf(s, "{") = 0
    /\ Len(MentionedItems(s)) > 0
    /\ ~MatchScalar(s, KprojectName).ok

C12_ProseTechStack ==
    (pc = "returned" /\ ProseWithTechStack(content)) =>
        /\ returnedBy = "extractPartialData"
        /\ result.techStack = JArr(slice(MentionedItems(content), ArrayLimit))
        /\ result.projectName = Or(repoInfo.name, Or(repoInfo.path, JStr(LitUnknownProject)))

(***************************************************************************)
(* Vocabulary of the properties of the handlers.                           *)
(***************************************************************************)
Blank(s) == trim(s) = <<>>
Done == spc = "done"
IsError(r) == r.status \notin 200..299 /\ DOMAIN r.body = {"error"}
Unrecognized ==
    \/ ~Truthy(request.url)
    \/ ~(IF service = "indexer" THEN parseRepoUrl(request.url.v)
         ELSE parseMRUrl(request.url.v)).ok

(***************************************************************************)
(* C13 (blank completion): when the completion the gateway delivers to the *)
(* indexer is empty or only white space, the handler answers with {error}  *)
(* and a non-2xx status, and no stage of the funnel (parse, repair, regex  *)
(* extraction, validation) is executed.                                    *)
(***************************************************************************)
C13_BlankIsFatal ==
    (service = "indexer" /\ pc # "idle" /\ Blank(content)) =>
        /\ calls = <<>>
        /\ Done => IsError(response)

(***************************************************************************)
(* C14 (review absorbs malformed completions): in the review, a completion *)
(* that is not JSON as it stands (truncated, prose, wrapped) never ends in *)
(* an error: the caller receives a review result.                          *)
(***************************************************************************)
C14_ReviewAbsorbsMalformed ==
    (/\ service = "review"
     /\ Done
     /\ pc # "idle"
     /\ ~Blank(content)
     /\ ~JSONparse(content).ok)
    => response.status = 200 /\ "error" \notin DOMAIN response.body

(***************************************************************************)
(* C15 (review fields validated): in every successful review response the  *)
(* status is one of passed, warnings, failed, each issue's line is an      *)
(* integer >= 0 and each issue's severity is one of error, warning, info.  *)
(***************************************************************************)
Statuses == {JStr(<<"p", "a", "s", "s", "e", "d">>), JStr(<<"w", "a", "r", "n", "i", "n", "g", "s">>), JStr(<<"f", "a", "i", "l", "e", "d">>)}
Severities == {JStr(<<"e", "r", "r", "o", "r">>), JStr(<<"w", "a", "r", "n", "i", "n", "g">>), JStr(<<"i", "n", "f", "o">>)}

C15_ReviewFieldsValid ==
    (service = "review" /\ Done /\ response.at = "end") =>
        /\ "status" \in DOMAIN response.body
        /\ response.body.status \in Statuses
        /\ response.body.issues.t = "arr"
        /\ \A i \in 1..Len(response.body.issues.v) :
              /\ Get(response.body.issues.v[i], Kline).t = "num"
              /\ Get(response.body.issues.v[i], Kline).v >= 0
              /\ Get(response.body.issues.v[i], Kseverity) \in Severities

(***************************************************************************)
(* C16 (gateway status mapping): in both handlers a non-2xx answer of the  *)
(* gateway ends the invocation with the error of its status: 429 the       *)
(* rate-limit error, 402 the payment-required error, any other the generic *)
(* failure; the caller receives that message and no completion is parsed.  *)
(***************************************************************************)
C16_GatewayStatusMapped ==
    (gateway.headers = "status" /\ gateway.status \notin 200..299) =>
        /\ spc \notin {"body", "analyze"}
        /\ pc = "idle" /\ calls = <<>> /\ content = <<>>
        /\ (Done /\ response.at = "gateway" /\ timer # "fired") =>
              /\ IsError(response)
              /\ response.body.error.text =
                    CASE gateway.status = 429
                           -> "Rate limit exceeded. Please try again later."
                      [] gateway.status = 402
                           -> "Payment required. Please add credits to continue."
                      [] OTHER -> "AI analysis failed: "
              /\ gateway.status \notin {429, 402}
                    => response.body.error.n = gateway.status

\* the review answered the payment-required error
C16_Witness ==
    /\ service = "review"
    /\ gateway.status = 402
    /\ Done
    /\ response.at = "gateway"
    /\ response.status = 500

(***************************************************************************)
(* C17 (indexer bounded wait): while the gateway has not finished its      *)
(* answer - not started, or body still being received - the indexer's      *)
(* timer can still abort the call, so the invocation never waits for ever; *)
(* an abort ends it with the timeout error.                                *)
(***************************************************************************)
C17_IndexerBoundedWait ==
    service = "indexer" =>
        /\ spc \in {"gateway", "body"} =>
              ENABLED (GatewayAnswers \/ BodyArrives \/ TimerFires)
        /\ timer = "fired" =>
              response.body.error.text
                  = "AI analysis timed out. Repository may be too large."

(***************************************************************************)
(* C18 (review bounded wait): when the gateway never answers, the review's *)
(* outstanding call is aborted by a timer and the invocation ends with a   *)
(* timeout error instead of never completing.                              *)
(***************************************************************************)
C18_ReviewBoundedWait ==
    (service = "review" /\ spc = "gateway" /\ gateway.headers = "never") =>
        timer = "armed" /\ ENABLED TimerFires

(***************************************************************************)
(* C19 (provider failures): in the indexer a non-2xx answer to the primary *)
(* repository call ends the invocation with an error; a secondary call     *)
(* (tree, languages, package.json) that fails - a non-2xx answer or a body *)
(* that cannot be decoded or parsed - is never fatal: its field keeps the  *)
(* empty default and the handler goes on to the gateway call.              *)
(***************************************************************************)
C19_SecondaryNeverFatal ==
    (service = "indexer" /\ "tree" \in DOMAIN fetched) =>
        /\ fetched.primary = "status" =>
              Done /\ IsError(response) /\ response.at = "fetch"
        /\ fetched.primary = "ok" =>
              /\ response.at # "fetch"
              /\ \A c \in {"tree", "languages", "packageJson"} :
                    fetched[c] # "skipped"
              /\ fetched.tree # "ok" => repoInfo.tree = JArr(<<>>)
              /\ fetched.languages # "ok" => repoInfo.languages = JObj(<<>>)
              /\ fetched.packageJson # "ok" => repoInfo.packageJson = JNull

(***************************************************************************)
(* C20 (one response per invocation): every invocation of either handler   *)
(* ends with exactly one response.  A missing or unrecognized URL gives    *)
(* 400 with {error} and no provider or gateway call is made; any other     *)
(* failure gives a non-2xx status with {error: message}; otherwise 200     *)
(* with the result.  An error response carries no result field and a       *)
(* success response no error field.                                        *)
(***************************************************************************)
ResultFields ==
    IF service = "indexer" THEN ScalarFields \cup ArrayFields
    ELSE {"status", "issues", "summary", "mrTitle", "author", "filesChanged",
          "linesAdded", "linesRemoved", "reviewTime"}

C20_OneResponse ==
    /\ spc \in {"fetch", "call", "gateway", "body"} =>
          ENABLED (FetchRepo \/ FetchChange \/ CallGateway
                   \/ GatewayAnswers \/ BodyArrives \/ TimerFires)
    /\ spc = "analyze" =>
          pc \in {"content", "direct", "repair", "extract", "returned", "thrown"}
    /\ ~Done => response = NoResponse
    /\ Done =>
          /\ response.status # 0
          /\ ~ENABLED (FetchRepo \/ FetchChange \/ CallGateway
                       \/ GatewayAnswers \/ BodyArrives \/ TimerFires)
    /\ (Done /\ request.method = "POST") =>
          IF request.json /\ Unrecognized
          THEN /\ response.status = 400
               /\ IsError(response)
               /\ fetched = NoFetch
               /\ timer = "none"
          ELSE IF response.status \in 200..299
          THEN /\ response.status = 200
               /\ "error" \notin DOMAIN response.body
               /\ DOMAIN response.body \subseteq ResultFields
          ELSE /\ IsError(response)
               /\ DOMAIN response.body \cap ResultFields = {}

(***************************************************************************)
(* C21 (stages in order): an indexer invocation moves strictly forward     *)
(* through URL parsing, provider fetches (the secondary ones only after    *)
(* the primary succeeded), gateway request, normalization, response.  The  *)
(* gateway request is issued only with the URL recognized and the primary  *)
(* fetch succeeded, it is issued at most once, and no provider call        *)
(* follows it.                                                             *)
(***************************************************************************)
StageRank(s) ==
    CASE s = "request" -> 1
      [] s = "fetch" -> 2
      [] s = "call" -> 3
      [] s = "gateway" -> 4
      [] s = "body" -> 5
      [] s = "analyze" -> 6
      [] s = "done" -> 7

C21_StagesForward ==
    [][service = "indexer" =>
          /\ StageRank(spc') >= StageRank(spc)
          /\ parsedUrl' # parsedUrl => spc = "request" /\ spc' = "fetch"
          /\ fetched' # fetched =>
                /\ spc = "fetch" /\ parsedUrl.ok
                /\ fetched'.primary # "ok" =>
                      \A c \in {"tree", "languages", "packageJson"} :
                          fetched'[c] = "skipped"
          /\ (spc # "gateway" /\ spc' = "gateway") =>
                spc = "call" /\ parsedUrl.ok /\ fetched.primary = "ok"
          /\ pc' # pc => spc \in {"body", "analyze"}
          /\ response' # response => spc # "done" /\ spc' = "done"
      ]_vars

\* an invocation that went through every stage
C21_Witness ==
    /\ service = "indexer"
    /\ Done
    /\ response.at = "end"
    /\ parsedUrl.ok /\ fetched.primary = "ok"
    /\ timer = "cleared"

(***************************************************************************)
(* C27 (timer cancelled on exit): once analyzeWithAI has returned or       *)
(* thrown - gateway error, empty completion, timeout, network failure, a   *)
(* result - its abort timer is not pending and cannot fire any more.       *)
(***************************************************************************)
Exited ==
    \/ pc \in {"returned", "thrown"}
    \/ Done /\ response.at \in {"call", "gateway", "body", "analyze", "end"}

C27_TimerCancelled ==
    (service = "indexer" /\ Exited) => timer # "armed" /\ ~ENABLED TimerFires

\* analyzeWithAI threw on a gateway status after arming its timer
C27_Witness ==
    /\ service = "indexer"
    /\ Done
    /\ response.at = "gateway"
    /\ gateway.headers = "status"
    /\ timer = "cleared"

(***************************************************************************)
(* C25 (escape-aware extraction): when extractPartialData produces the     *)
(* result, each scalar field (projectName, description, readme) that is    *)
(* present in the text as "key": "value" has the value that runs up to the *)
(* first quote that is not escaped (for the readme with \n and \" decoded),*)
(* and no array field has more than 5 elements.                            *)
(***************************************************************************)
\* the positions where "key": " stands and an unescaped quote closes a
\* value of at least one character
QuotedAt(s, key) ==
    {i \in 1..Len(s) :
        /\ AfterKey(s, key, QT, i) # 0
        /\ ClosingQuote(s, AfterKey(s, key, QT, i)) > AfterKey(s, key, QT, i)}

UpToUnescapedQuote(s, key) ==
    Sub(s, AfterKey(s, key, QT, FirstIn(QuotedAt(s, key))),
        ClosingQuote(s, AfterKey(s, key, QT, FirstIn(QuotedAt(s, key)))) - 1)

C25_EscapeAware ==
    (pc = "returned" /\ returnedBy = "extractPartialData") =>
        /\ \A f \in {"projectName", "description"} :
              QuotedAt(jsonStr, Key(f)) # {} =>
                  result[f] = JStr(UpToUnescapedQuote(jsonStr, Key(f)))
        /\ QuotedAt(jsonStr, Kreadme) # {} =>
              result.readme = JStr(UnescapeReadme(UpToUnescapedQuote(jsonStr, Kreadme)))
        /\ \A f \in ArrayFields : Len(result[f].v) <= ArrayLimit

(***************************************************************************)
(* C24 (closing what is open): the text repairTruncatedJson returns is the *)
(* text left by the cut to the last complete property and the removal of   *)
(* a trailing comma, followed by one quote iff its number of quotes is     *)
(* odd, then one ] per excess [, then one } per excess {.  So the result   *)
(* has an even number of quotes, at least as many ] as [ and } as {, and   *)
(* a balanced text is returned as it is.                                   *)
(***************************************************************************)
Excess(s, open, close) == Max(0, Count(s, open) - Count(s, close))

Closings(s) ==
    (IF Count(s, QT) % 2 = 1 THEN <<QT>> ELSE <<>>)
    \o [i \in 1..Excess(s, "[", "]") |-> "]"]
    \o [i \in 1..Excess(s, "{", "}") |-> "}"]

BeforeClosing(s) == StripTrailingComma(CutToLastComplete(s))

C24_ClosesWhatIsOpen ==
    Called("repairTruncatedJson") =>
        /\ repairTruncatedJson(jsonStr)
              = BeforeClosing(jsonStr) \o Closings(BeforeClosing(jsonStr))
        /\ Count(repairTruncatedJson(jsonStr), QT) % 2 = 0
        /\ Excess(repairTruncatedJson(jsonStr), "[", "]") = 0
        /\ Excess(repairTruncatedJson(jsonStr), "{", "}") = 0
        /\ Closings(BeforeClosing(jsonStr)) = <<>> =>
              repairTruncatedJson(jsonStr) = BeforeClosing(jsonStr)

\* a text cut inside a string inside an array inside the object was repaired
C24_Witness ==
    /\ Called("repairTruncatedJson")
    /\ Count(BeforeClosing(jsonStr), QT) % 2 = 1
    /\ Excess(BeforeClosing(jsonStr), "[", "]") > 0
    /\ Excess(BeforeClosing(jsonStr), "{", "}") > 0

(***************************************************************************)
(* C22 (joined calls fail independently): in fetchGitHubPR / fetchGitLabMR *)
(* of the diff comparison the details call and the files call are issued   *)
(* together and joined.  The outcome does not depend on which of the two   *)
(* completes first, and when one of them fails the result of the other is  *)
(* still incorporated into the merge request's details.                    *)
(***************************************************************************)
DetailsOf(which) == IF which = "previous" THEN diff.previousMR ELSE diff.currentMR
Failed(outcome) == outcome \in {"status", "rejects"}

C22_JoinedIndependently ==
    \A w \in {"previous", "current"} :
        (diff.at = "done" /\ diff.which # "none") =>
            \* the same outcomes give the same end, whichever call was first
            /\ (diff.which = w /\ diff.toast = "Comparison Failed") =>
                  diff.description \in
                      {"Failed to fetch", "Failed to fetch GitHub PR details",
                       "Failed to fetch GitLab MR details"}
                  /\ (diff.description = "Failed to fetch")
                         = ("rejects" \in {diff[w].details, diff[w].files})
            \* one failed call does not discard the other call's result
            /\ (diff[w].details = "ok" /\ Failed(diff[w].files)) =>
                  DetailsOf(w).title # <<>>
            /\ (diff[w].files = "ok" /\ Failed(diff[w].details)) =>
                  DetailsOf(w).filesChanged = FilesOf(w)

(***************************************************************************)
(* C23 (both provider shapes): parseRepoUrl gives the flat pair owner/repo *)
(* for a GitHub URL and, for a GitLab path of n >= 2 segments, the last    *)
(* segment as repo and the others joined by / as owner.  For a GitLab      *)
(* merge request URL with nested groups, parseMRUrl of the review function *)
(* and parseMRUrl of the diff comparison page both give owner g1/.../gk,   *)
(* the repo and the number, owner and repo not empty.                      *)
(***************************************************************************)
Located(platform, owner, repo, mrNumber) ==
    [ok |-> TRUE, platform |-> platform, owner |-> owner, repo |-> repo,
     mrNumber |-> mrNumber]

Expected(url) ==
    CASE url = UrlPull -> Located("github", <<"o">>, <<"r">>, <<"7">>)
      [] url = UrlMergeRequest -> Located("gitlab", <<"g">>, <<"r">>, <<"1", "2">>)
      [] url = UrlNestedMergeRequest ->
             Located("gitlab", <<"g", "/", "s">>, <<"r">>, <<"1", "2">>)
      [] url = UrlRepo -> Located("github", <<"o">>, <<"r">>, <<>>)
      [] OTHER -> Located("gitlab", <<"g", "/", "s">>, <<"r">>, <<>>)

Same(found, wanted) ==
    /\ found.ok
    /\ \A x \in DOMAIN wanted : found[x] = wanted[x]

C23_BothShapes ==
    /\ Same(parseRepoUrl(UrlRepo), Expected(UrlRepo))
    /\ Same(parseRepoUrl(<<"h", "t", "t", "p", "s", ":", "/", "/", "g", "i", "t", "l", "a", "b", ".", "c", "o", "m", "/", "g", "/", "s", "/", "r">>), Expected(<<>>))
    /\ (diff.at \notin {"absent", "idle"}
           /\ diff.previousMRUrl # <<>> /\ diff.currentMRUrl # <<>>) =>
          /\ diff.previousMRUrl # UrlRepo =>
                /\ Same(parseMRUrl(diff.previousMRUrl), Expected(diff.previousMRUrl))
                /\ Same(diff.previousParsed, Expected(diff.previousMRUrl))
          /\ diff.currentMRUrl # UrlRepo =>
                /\ Same(parseMRUrl(diff.currentMRUrl), Expected(diff.currentMRUrl))
                /\ Same(diff.currentParsed, Expected(diff.currentMRUrl))

(***************************************************************************)
(* C26 (review history): from an empty history, after any sequence of      *)
(* addReviewToHistory and clearHistory calls, once React has rendered, the *)
(* history holds at most 50 entries, no id twice, the review added last    *)
(* is first, and local storage holds exactly the list in memory: the key   *)
(* is absent after clearHistory.                                           *)
(***************************************************************************)
Settled == hist.at = "mounted" /\ hist.queue = <<>>

C26_HistoryConsistent ==
    Settled =>
        /\ Len(hist.reviewHistory) <= HistoryLimit
        /\ \A i, j \in 1..Len(hist.reviewHistory) :
              hist.reviewHistory[i] = hist.reviewHistory[j] => i = j
        /\ hist.last = "add" =>
              /\ hist.reviewHistory # <<>>
              /\ hist.reviewHistory[1] = hist.lastId
              /\ hist.stored = StoredAs(hist.reviewHistory)
        /\ hist.last \in {"none", "clear"} =>
              /\ hist.reviewHistory = <<>>
              /\ hist.stored = NotStored

(***************************************************************************)
(* C28: on the review page the email and the Telegram notification are     *)
(* started only after the review succeeded and its history entry was       *)
(* recorded; they are started together and each one settles whatever the   *)
(* other did; a failed notification leaves the displayed result and the    *)
(* history entry in place and never reports the review as failed.          *)
(***************************************************************************)
Recorded(id) ==
    \/ \E i \in 1..Len(hist.reviewHistory) : hist.reviewHistory[i] = id
    \/ \E i \in 1..Len(hist.queue) : hist.queue[i] = AddUpdate(id)

ReviewStands ==
    /\ page.result = "data"
    /\ page.entry > 0
    /\ Recorded(page.entry)
    /\ "reviewComplete" \in page.toasts
    /\ "reviewFailed" \notin page.toasts

C28_NotificationsIndependent ==
    page.at # "absent" =>
        /\ page.email.state = "idle" <=> page.telegram.state = "idle"
        /\ page.email.state # "idle" => ReviewStands
        /\ page.email.state = "failed" /\ page.telegram.state = "sending"
              => ENABLED TelegramSettles
        /\ page.telegram.state = "failed" /\ page.email.state = "sending"
              => ENABLED EmailSettles

C28_Witness ==
    /\ page.at = "idle"
    /\ page.email.state = "failed"
    /\ page.telegram.state = "sent"
    /\ page.result = "data"

(***************************************************************************)
(* C29: every review the page starts ends with isLoading, isSendingEmail   *)
(* and isSendingTelegram false, whether the review succeeded, failed, or a *)
(* notification failed; the flags are false whenever no review is running, *)
(* and at most one review request is in flight.                            *)
(***************************************************************************)
NotBusy ==
    /\ ~page.isLoading
    /\ ~page.isSendingEmail
    /\ ~page.isSendingTelegram

NeitherToken == mrs.body.githubToken = "" /\ mrs.body.gitlabToken = ""

ProviderWorld(platform) == IF platform = "github" THEN mrs.github ELSE mrs.gitlab

Asked(platform, i) ==
    \E c \in 1..Len(mrs.calls) :
        /\ mrs.calls[c].platform = platform
        /\ mrs.calls[c].what = "list"
        /\ mrs.calls[c].repo = i

ListingSucceeded(platform, i) ==
    /\ i <= Len(ProviderWorld(platform).listing)
    /\ Asked(platform, i)
    /\ ProviderWorld(platform).listing[i].outcome = "ok"

MRsOfSucceeded ==
    UNION {{OpenMR(at[1], at[2], n, ProviderWorld(at[1]).listing[at[2]].prs[n]) :
               n \in 1..Len(ProviderWorld(at[1]).listing[at[2]].prs)} :
           at \in {x \in {"github", "gitlab"} \X (1..(RepoLimit + 1)) :
                      ListingSucceeded(x[1], x[2])}}

NewestFirst(list) ==
    \A i, j \in 1..Len(list) :
        i < j => getTime(list[i].createdAt) >= getTime(list[j].createdAt)

C30_PartialFailuresAbsorbed ==
    mrs.at # "absent" /\ mrs.method = "POST" /\ mrs.body.readable =>
        /\ NeitherToken => mrs.calls = <<>>
        /\ mrs.at = "done" =>
              IF NeitherToken
              THEN mrs.response.status = 400
              ELSE /\ mrs.response.status = 200
                   /\ {mrs.response.mrs[i] : i \in 1..Len(mrs.response.mrs)} = MRsOfSucceeded
                   /\ Len(mrs.response.mrs) = Cardinality(MRsOfSucceeded)
                   /\ NewestFirst(mrs.response.mrs)

C30_Witness ==
    /\ mrs.at = "done"
    /\ mrs.response.status = 200
    /\ mrs.github.listing # <<>>
    /\ mrs.gitlab.repos = "status"
    /\ \E c \in 1..Len(mrs.calls) :
          mrs.calls[c].what = "list" /\ mrs.calls[c].outcome = "rejects"
    /\ Len(mrs.response.mrs) = 1

=============================================================================
